---- MODULE Spec2Model ----
(***************************************************************************)
(* A state-machine model of nethervortex.py: the Node singleton            *)
(* constructor, the three-phase stage lifecycle with the retry wrapper,    *)
(* Flow traversal over the successor maps, and ParallelStep with its       *)
(* PSlot workers.  User hooks (prelude / dispatch / postlude) are inputs:  *)
(* each call nondeterministically returns or raises.                       *)
(***************************************************************************)
EXTENDS Integers, Sequences, FiniteSets, TLC

(* ------------------------------ bounds -------------------------------- *)
\* longest retry schedule a caller supplies
MaxSched == 2
\* stage runs started by one top-level run
MaxSteps == 3
\* constructor calls explored by the construction specification
MaxNew == 3
\* successor entries the caller registers before a run
MaxEdges == 2
\* children of a ParallelStep, and so PSlot workers of one run
MaxTasks == 2
\* stage runs started by one run of the test file's looping flow
MaxLoopSteps == 12

(* ------------------------------ values -------------------------------- *)
\* Python None as an object reference
Null == 0
\* a class attribute that is absent from the class's own __dict__
Unset == -1
\* Python None as an outcome / hook result
NoneV == "<None>"

\* a dict is a function whose DOMAIN is its key set
EmptyDict == [k \in {} |-> 0]
DictGet(d, k, dflt) == IF k \in DOMAIN d THEN d[k] ELSE dflt
DictSet(d, k, v) == [x \in (DOMAIN d) \cup {k} |-> IF x = k THEN v ELSE d[x]]

(* ------------------------------ classes ------------------------------- *)
\* the Node types the caller constructs: the user types and Node itself
NodeClasses == {"ANode", "BNode", "CNode", "DNode", "Node"}
\* the Node types of llm_flow_showcase.py
ShowClasses == {"PromptGenerationNode", "GemmaEvaluationNode",
                "AssessmentNode", "FlowEndNode"}
AllClasses == {"_Singleton"} \cup NodeClasses \cup ShowClasses

\* the base class along which the _instance attribute is looked up
Base(c) ==
  CASE c \in {"ANode", "BNode", "CNode", "DNode"} \cup ShowClasses -> "Node"
    [] c = "Node" -> "_Singleton"
    [] OTHER -> "object"

RECURSIVE IsSubclass(_, _)
IsSubclass(c, d) ==
  IF c = d THEN TRUE
  ELSE IF c = "object" THEN FALSE
  ELSE IsSubclass(Base(c), d)

\* class_._instance : attribute lookup along the base classes
RECURSIVE ClassInstance(_, _)
ClassInstance(dict, c) ==
  IF c = "object" THEN Null
  ELSE IF dict[c] # Unset THEN dict[c]
  ELSE ClassInstance(dict, Base(c))

\* the component identifier a Node type declares (NoneV: no COMP attribute)
COMP(c) ==
  CASE c \in {"ANode", "DNode"} -> "D"
    [] c \in ShowClasses -> "LLM_ITERATOR"
    [] OTHER -> NoneV
\* hasattr(self, hook): ANode and the showcase types define the three
\* hooks, BNode, CNode and DNode prelude and postlude, Node none
HasHook(c, h) ==
  CASE c = "ANode" \/ c \in ShowClasses -> TRUE
    [] c \in {"BNode", "CNode", "DNode"} -> h # "dispatch"
    [] OTHER -> FALSE

(* ------------------------------ objects ------------------------------- *)
\* the retry schedules a caller passes: Sched(k) = <<k, k-1, .., 1>>
Sched(k) == [i \in 1..k |-> k + 1 - i]
\* constructor arguments: retry_waits omitted (None) or a schedule
Args == {[none |-> TRUE, w |-> <<>>]}
          \cup {[none |-> FALSE, w |-> Sched(k)] : k \in 0..MaxSched}

\* `if retry_waits:` is false for None and for an empty sequence
Truthy(arg) == ~arg.none /\ Len(arg.w) > 0
InitRetryWaits(arg) == IF Truthy(arg) THEN arg.w ELSE <<0>>

\* object.__new__(class_): no instance attributes yet
RawObject(kind, cls) ==
  [kind |-> kind, cls |-> cls, initialized |-> FALSE,
   successors |-> EmptyDict, retry_waits |-> <<>>,
   start_node |-> Null, tasks |-> <<>>]

\* faulty variant: whatever class_._instance holds is reused
SingletonNewAny(h, d, cls) ==
  LET cur == ClassInstance(d, cls) IN
  IF cur # Null
  THEN [heap |-> h, dict |-> d, ref |-> cur]
  ELSE [heap |-> Append(h, RawObject("node", cls)),
        dict |-> [d EXCEPT ![cls] = Len(h) + 1],
        ref |-> Len(h) + 1]

\* _Singleton.__new__: reuse class_._instance when it is an instance of class_
SingletonNew(h, d, cls) ==
  LET cur == ClassInstance(d, cls) IN
  IF cur # Null /\ IsSubclass(h[cur].cls, cls)
  THEN [heap |-> h, dict |-> d, ref |-> cur]
  ELSE [heap |-> Append(h, RawObject("node", cls)),
        dict |-> [d EXCEPT ![cls] = Len(h) + 1],
        ref |-> Len(h) + 1]

\* faulty variant: every construction initialises the instance again
NodeInitAlways(o, arg) ==
  [o EXCEPT !.successors = EmptyDict,
            !.retry_waits = InitRetryWaits(arg),
            !.initialized = TRUE]

\* Node.__init__: attributes are set on the first initialisation only
NodeInit(o, arg) ==
  IF ~o.initialized
  THEN [o EXCEPT !.successors = EmptyDict,
                 !.retry_waits = InitRetryWaits(arg),
                 !.initialized = TRUE]
  ELSE o

\* cls(retry_waits=arg): __new__ followed by __init__
NewNode(h, d, cls, arg) ==
  LET n == SingletonNew(h, d, cls) IN
  [heap |-> [n.heap EXCEPT ![n.ref] = NodeInit(n.heap[n.ref], arg)],
   dict |-> n.dict, ref |-> n.ref]

\* BaseNode.next(target, action)
AddSuccessor(o, action, target) ==
  [o EXCEPT !.successors = DictSet(o.successors, action, target)]

\* the label of `def next(self, target, action="default")`
DefaultAction == "default"
\* faulty variant: an edge that exists is kept, the new target is dropped
nextKeep(h, self, target, action) ==
  [heap |-> IF action \in DOMAIN h[self].successors THEN h
            ELSE [h EXCEPT ![self] = AddSuccessor(@, action, target)],
   ret |-> target,
   warn |-> action \in DOMAIN h[self].successors]
\* self.next(target, action): the heap after the call, the value returned
\* and whether the overwrite warning was logged
next(h, self, target, action) ==
  [heap |-> [h EXCEPT ![self] = AddSuccessor(@, action, target)],
   ret |-> target,
   warn |-> action \in DOMAIN h[self].successors]
\* self >> other: self.next(other)
rshift(h, self, other) == next(h, self, other, DefaultAction)
\* self - action: _TransHelper(self, action); the labels here are strings
sub(self, action) == [src |-> self, action |-> action]
\* _TransHelper.__rshift__(target): self.src.next(target, self.action)
TransRshift(h, helper, target) == next(h, helper.src, target, helper.action)

(* --------------------------- shared context --------------------------- *)
\* configuration keys and values of the bounded inputs
Keys == {"arg1", "arg2"}
Vals == {1, 2}
\* every dict over a subset of Keys
Dicts == UNION {[ks -> Vals] : ks \in SUBSET Keys}

\* SharedData: config, cmpnt, state.  cmpnt["M"] is the component the
\* modelled hooks write to; cmpnt["D"] is the component ANode declares.
SharedData(config, d) ==
  [config |-> config, cmpnt |-> d, state |-> NoneV]
MarkComp == [n |-> 0]
\* cmpnt without "D", with a "D" that has no "config", with a "D" config
CmpntChoices ==
  {[c \in {"M"} |-> MarkComp]}
    \cup {[c \in {"M", "D"} |-> IF c = "M" THEN MarkComp ELSE EmptyDict]}
    \cup {[c \in {"M", "D"} |-> IF c = "M" THEN MarkComp
                                 ELSE [k \in {"config"} |-> cc]] : cc \in Dicts}

\* faulty variant: the global value wins on a key collision
OverlayGlobalWins(g, c) ==
  [k \in (DOMAIN g) \cup (DOMAIN c) |-> IF k \in DOMAIN g THEN g[k] ELSE c[k]]

\* dict |= other
Overlay(g, c) ==
  [k \in (DOMAIN g) \cup (DOMAIN c) |-> IF k \in DOMAIN c THEN c[k] ELSE g[k]]

\* Node._prep, the configuration part: dict(**shared["config"]) overlaid by
\* shared["cmpnt"][COMP].get("config", {}) when COMP is declared and present
MergeCfg(sh, cls) ==
  IF COMP(cls) # NoneV /\ COMP(cls) \in DOMAIN sh.cmpnt
  THEN Overlay(sh.config, DictGet(sh.cmpnt[COMP(cls)], "config", EmptyDict))
  ELSE sh.config

(* ------------------------------ frames -------------------------------- *)
\* the calling thread, and the PSlot actor threads
Main == 0
Workers == 1..MaxTasks
Threads == {Main} \cup Workers
CtxIds == {1, 2}
\* the context the caller passes to run; the other one is a bystander
CallerCtx == 1

Labels == {"default", "x"}
\* what a postlude may return
Outcomes == {NoneV, "", "x"}
Raised == "<raise>"

\* one activation of a stage's _run on a thread
Frame(kind, self, pc, shared) ==
  [kind |-> kind, self |-> self, pc |-> pc, shared |-> shared,
   waits |-> <<>>, cfg |-> EmptyDict, pre |-> 0, res |-> NoneV,
   curr |-> Null, slots |-> <<>>, i |-> 0, results |-> <<>>]

\* entry point of o._run(shared) by kind of stage
EntryFrame(h, o, c) ==
  CASE h[o].kind = "node" -> Frame("node", o, "stamp", c)
    [] h[o].kind = "flow" ->
         [Frame("flow", o, "loop", c) EXCEPT !.curr = h[o].start_node]
    [] OTHER -> Frame("par", o, "prep", c)

\* an entry of a thread's trace of its current Node run
Ev(ev, hook, v, w, cfg, sh) ==
  [ev |-> ev, hook |-> hook, v |-> v, w |-> w, cfg |-> cfg, sh |-> sh]

\* faulty variant: no fallback to the default label
ActionKeyStrict(action) == action
\* Flow.get_next_node: curr.successors.get(action if action else "default")
ActionKey(action) == IF action \in {NoneV, ""} THEN "default" ELSE action
\* faulty variant: an outcome without an edge falls back to the default edge
get_next_node_fallback(succ, action) ==
  IF ActionKey(action) \in DOMAIN succ THEN succ[ActionKey(action)]
  ELSE DictGet(succ, "default", Null)
\* faulty variant: the outcome is ignored and the default edge always followed
get_next_node_default(succ, action) == DictGet(succ, "default", Null)
get_next_node(succ, action) == DictGet(succ, ActionKey(action), Null)

\* Node._exec1: the per-run copy of the schedule
CopyWaits(o) == o.retry_waits

\* BaseNode._run: the phase that follows a completed phase
NextPhase(pc) ==
  CASE pc = "stamp" -> "prep"
    [] pc = "prep" -> "exec"
    [] pc = "exec" -> "post"
    [] OTHER -> "return"

\* faulty variant: _post is handed another SharedData object than _prep
PostSharedOther(f) == CHOOSE c \in CtxIds : c # f.shared

\* the context object BaseNode._run hands to _post: the one _prep received
PostShared(f) == f.shared
\* _exec1(prep_res) and dispatch(prelude_res, **cfg) take no context
ExecShared(f) == Null

\* DNode.postlude: `if d > 1`
DThreshold == 1
\* the postlude hooks of the test file: DNode counts its passes in
\* shared["cmpnt"]["D"]["data_d"] and returns "again" or "finish"; the
\* others return None
TestPostlude(cls, sh) ==
  IF cls = "DNode"
  THEN LET d == DictGet(sh.cmpnt["D"], "data_d", 0) IN
         IF d > DThreshold
         THEN [out |-> "finish", sh |-> sh]
         ELSE [out |-> "again",
               sh |-> [sh EXCEPT !.cmpnt["D"] = DictSet(@, "data_d", d + 1)]]
  ELSE [out |-> NoneV, sh |-> sh]

(* ------------------ the hooks of llm_flow_showcase.py ----------------- *)
\* `if round_count > 5` in PromptGenerationNode.prelude and
\* `if current_round >= 5` in AssessmentNode.postlude
MaxRounds == 5
\* `not x` for the values a component entry holds here: None and ""
Falsy(x) == x \in {NoneV, ""}
\* what a client call gives back: a text, an empty text, a verdict in some
\* spelling, or an exception
Answers == {"text", "", "YES", "yes ", "NO", Raised}

\* the prelude hooks: the action part of the pair they return, and the
\* context they leave.  PromptGenerationNode counts the round before it
\* looks at the limit.
ShowPrelude(cls, sh) ==
  LET c == sh.cmpnt["LLM_ITERATOR"]
      pd == DictGet(c, "problem_definition", NoneV)
      round_count == DictGet(c, "round_count", 0) + 1
  IN
  CASE cls = "PromptGenerationNode" ->
         IF Falsy(pd)
         THEN [pre |-> "error_missing_problem_def", sh |-> sh]
         ELSE [pre |-> IF round_count > MaxRounds THEN "MAX_ROUNDS_REACHED"
                       ELSE "proceed_to_dispatch",
               sh |-> [sh EXCEPT !.cmpnt["LLM_ITERATOR"] =
                                   DictSet(@, "round_count", round_count)]]
    [] cls = "GemmaEvaluationNode" ->
         [pre |-> IF Falsy(DictGet(c, "current_gemma_prompt", NoneV))
                  THEN "error_missing_gemma_prompt"
                  ELSE "proceed_to_dispatch",
          sh |-> sh]
    [] cls = "AssessmentNode" ->
         [pre |-> IF DictGet(c, "current_gemma_response", NoneV) = NoneV
                  THEN "error_missing_gemma_response"
                  ELSE IF Falsy(pd)
                  THEN "error_missing_problem_def_for_assessment"
                  ELSE "proceed_to_dispatch",
          sh |-> sh]
    [] OTHER -> [pre |-> "flow_ended_data_collected", sh |-> sh]

\* the dispatch hooks: the pair (action, payload) they return for the
\* client's answer ans, or Raised when the client's exception leaves the
\* hook.  cfg["gemini_client"] stands for gemini_client.api_key: 1 when a
\* key is set, 0 when not.
ShowDispatch(cls, pre, cfg, ans) ==
  LET none(a) == [act |-> a, val |-> NoneV]
      \* .strip().upper()
      verdict == CASE ans = "yes " -> "YES"
                   [] ans = "text" -> "TEXT"
                   [] OTHER -> ans
  IN
  CASE cls = "PromptGenerationNode" ->
         IF pre = "MAX_ROUNDS_REACHED" THEN none("max_rounds_exceeded")
         ELSE IF pre = "error_missing_problem_def"
         THEN none("error_problem_def_missing")
         ELSE IF ans = Raised THEN none(Raised)
         ELSE [act |-> "prompt_generated", val |-> ans]
    [] cls = "GemmaEvaluationNode" ->
         IF pre = "error_missing_gemma_prompt"
         THEN none("evaluation_error_no_prompt")
         ELSE IF ans = Raised THEN none(Raised)
         ELSE [act |-> "evaluation_complete", val |-> ans]
    [] cls = "AssessmentNode" ->
         IF pre \in {"error_missing_gemma_response",
                     "error_missing_problem_def_for_assessment"}
         THEN none("assessment_error_missing_data")
         ELSE IF cfg["gemini_client"] = 0
         THEN none("assessment_error_missing_key")
         ELSE IF ans = Raised THEN none("assessment_error_api_call")
         ELSE [act |-> "assessment_done", val |-> verdict]
    [] OTHER -> none("flow_complete")

\* faulty variant: AssessmentNode ends the flow only after the limit
ShowPostludeLate(cls, sh, res) ==
  LET c == sh.cmpnt["LLM_ITERATOR"]
      current_round == DictGet(c, "round_count", 0)
      saved(k) == [sh EXCEPT !.cmpnt["LLM_ITERATOR"] = DictSet(@, k, res.val)]
  IN
  CASE cls = "PromptGenerationNode" ->
         [out |-> res.act,
          sh |-> IF res.act = "prompt_generated" /\ ~Falsy(res.val)
                 THEN saved("current_gemma_prompt") ELSE sh]
    [] cls = "GemmaEvaluationNode" ->
         [out |-> res.act,
          sh |-> IF res.act = "evaluation_complete" /\ res.val # NoneV
                 THEN saved("current_gemma_response") ELSE sh]
    [] cls = "AssessmentNode" ->
         [out |-> IF res.act \in {"assessment_error_missing_data",
                                  "assessment_error_api_call",
                                  "assessment_error_missing_key"}
                  THEN "assessment_failed_end_flow"
                  ELSE IF res.val = "YES" THEN "satisfied_end_flow"
                  ELSE IF current_round > MaxRounds THEN "max_rounds_end_flow"
                  ELSE "unsatisfied_loop_back",
          sh |-> sh]
    [] OTHER -> [out |-> res.act, sh |-> sh]

\* the postlude hooks: the outcome they return and the context they leave
ShowPostlude(cls, sh, res) ==
  LET c == sh.cmpnt["LLM_ITERATOR"]
      current_round == DictGet(c, "round_count", 0)
      saved(k) == [sh EXCEPT !.cmpnt["LLM_ITERATOR"] = DictSet(@, k, res.val)]
  IN
  CASE cls = "PromptGenerationNode" ->
         [out |-> res.act,
          sh |-> IF res.act = "prompt_generated" /\ ~Falsy(res.val)
                 THEN saved("current_gemma_prompt") ELSE sh]
    [] cls = "GemmaEvaluationNode" ->
         [out |-> res.act,
          sh |-> IF res.act = "evaluation_complete" /\ res.val # NoneV
                 THEN saved("current_gemma_response") ELSE sh]
    [] cls = "AssessmentNode" ->
         [out |-> IF res.act \in {"assessment_error_missing_data",
                                  "assessment_error_api_call",
                                  "assessment_error_missing_key"}
                  THEN "assessment_failed_end_flow"
                  ELSE IF res.val = "YES" THEN "satisfied_end_flow"
                  ELSE IF current_round >= MaxRounds THEN "max_rounds_end_flow"
                  ELSE "unsatisfied_loop_back",
          sh |-> sh]
    [] OTHER -> [out |-> res.act, sh |-> sh]

\* faulty variant: a failure restores the context the run started with
UnwindRollback(c) ==
  [i \in DOMAIN c |->
     [c[i] EXCEPT !.state = NoneV, !.cmpnt["M"] = [n |-> 0]]]

\* an exception leaving _run: no handler on the way touches the context
Unwind(c) == c

VARIABLES
  ctx,       \* the SharedData objects the caller holds, by reference
  stack,     \* per thread: the activations of _run, innermost last
  fin,       \* per thread: how its outermost call ended
  trace,     \* per thread: the phases of its current (or last) Node run
  path,      \* stage runs completed so far: thread, stage, outcome
  steps,     \* Node runs started
  phase,     \* "build" while the caller wires the graph, then "run"
  slot,      \* per worker: the PSlot actor, its shared context and inbox
  heap,      \* the objects built so far, indexed by reference
  instDict,  \* per class: its own _instance attribute
  refs,      \* history of constructor calls: class, argument, reference returned
  hooks,     \* the hooks the Node types carry: "any" behaviour, the "test"
             \* file's, counting hooks on the "same" key or each on its "own",
             \* a prelude that rewrites the "cfg" of the context, or the
             \* hooks of the "show" case script
  expr       \* the last wiring expression the caller evaluated, and its value

vars == <<ctx, stack, fin, trace, path, steps, phase, slot, heap, instDict, refs, hooks, expr>>

InstDict0 == [c \in AllClasses |-> IF c = "_Singleton" THEN Null ELSE Unset]

NoFin == [st |-> "none", val |-> NoneV]
\* the caller has evaluated no wiring expression
NoExpr ==
  [form |-> "none", src |-> Null, label |-> NoneV, tgt |-> Null, val |-> Null,
   warn |-> FALSE, chained |-> FALSE, arg |-> <<>>, raised |-> FALSE]
\* a PSlot that has not been started
NoSlot == [st |-> "free", shared |-> Null, msg |-> Null, task |-> Null]
Idle ==
  /\ stack = [t \in Threads |-> <<>>]
  /\ fin = [t \in Threads |-> NoFin]
  /\ trace = [t \in Threads |-> <<>>]
  /\ path = <<>>
  /\ steps = 0
  /\ slot = [w \in Workers |-> NoSlot]
  /\ expr = NoExpr

\* the configuration of the library's own tests
TestConfig == [k \in {"arg1"} |-> 1]
TestCmpnt ==
  [c \in {"M", "D"} |-> IF c = "M" THEN MarkComp
                         ELSE [k \in {"config"} |-> [a \in {"arg2"} |-> 2]]]

(* ----------------- the construction specification --------------------- *)
InitNew ==
  /\ heap = <<>>
  /\ instDict = InstDict0
  /\ refs = <<>>
  /\ ctx = [c \in CtxIds |-> SharedData(TestConfig, TestCmpnt)]
  /\ phase = "build"
  /\ Idle
  /\ hooks = "any"

\* cls(retry_waits=arg)
Construct(cls, arg) ==
  /\ phase = "build"
  /\ Len(refs) < MaxNew
  /\ LET n == NewNode(heap, instDict, cls, arg) IN
       /\ heap' = n.heap
       /\ instDict' = n.dict
       /\ refs' = Append(refs, [cls |-> cls, arg |-> arg, ref |-> n.ref])
  /\ UNCHANGED <<ctx, stack, fin, trace, path, steps, phase, slot, hooks, expr>>

NextNew == \E cls \in NodeClasses, arg \in Args : Construct(cls, arg)

SpecNew == InitNew /\ [][NextNew]_vars

(* --------------------------- thread helpers --------------------------- *)
Top(t) == stack[t][Len(stack[t])]
At(t, kind, pc) ==
  /\ stack[t] # <<>>
  /\ Top(t).kind = kind
  /\ Top(t).pc = pc
SetTop(t, f) == [stack EXCEPT ![t] = [@ EXCEPT ![Len(@)] = f]]
Push(st, t, f) == [st EXCEPT ![t] = Append(@, f)]
Logged(t, evs) == [trace EXCEPT ![t] = @ \o evs]
Done(t, o, out) == Append(path, [t |-> t, o |-> o, out |-> out])

\* `return v` from the innermost activation: the caller resumes with v, or
\* the thread's outermost call has returned v
Return(t, v) ==
  /\ stack' = IF Len(stack[t]) = 1
              THEN [stack EXCEPT ![t] = <<>>]
              ELSE [stack EXCEPT ![t] =
                      Append(SubSeq(@, 1, Len(@) - 2),
                             [@[Len(@) - 1] EXCEPT !.res = v, !.pc = "ret"])]
  /\ fin' = IF Len(stack[t]) = 1
            THEN [fin EXCEPT ![t] = [st |-> "returned", val |-> v]]
            ELSE fin

\* faulty variant: the caller catches the exception and goes on with None
RaiseCaught(t) ==
  IF Len(stack[t]) = 1
  THEN /\ stack' = [stack EXCEPT ![t] = <<>>]
       /\ fin' = [fin EXCEPT ![t] = [st |-> "raised", val |-> Raised]]
  ELSE Return(t, NoneV)

\* an exception nobody catches: every activation of the thread is unwound
Raise(t) ==
  /\ stack' = [stack EXCEPT ![t] = <<>>]
  /\ fin' = [fin EXCEPT ![t] = [st |-> "raised", val |-> Raised]]

(* ------------------------------- Node --------------------------------- *)
\* faulty variant: waits.pop() takes the last wait instead of the first
OnExecFailurePopLast(waits) ==
  IF waits # <<>>
  THEN [retry |-> TRUE, w |-> waits[Len(waits)],
        rest |-> SubSeq(waits, 1, Len(waits) - 1)]
  ELSE [retry |-> FALSE, w |-> 0, rest |-> <<>>]

\* Node._exec1, the except branch: pop the next wait, or give up
OnExecFailure(waits) ==
  IF waits # <<>>
  THEN [retry |-> TRUE, w |-> Head(waits), rest |-> Tail(waits)]
  ELSE [retry |-> FALSE, w |-> 0, rest |-> <<>>]

\* faulty variant: the fallback returns None instead of raising
ExecFallbackSwallow(t) ==
  /\ stack' = SetTop(t, [Top(t) EXCEPT !.res = NoneV, !.pc = "post"])
  /\ fin' = fin

\* Node._exec_fallback(prep_res, exc): raise exc
ExecFallback(t) == Raise(t)

\* the cap on stage runs: the test file's flow is deterministic and gets
\* room to finish
StepCap == IF hooks \in {"test", "show"} THEN MaxLoopSteps ELSE MaxSteps

\* faulty variant: the marker gets the name of the base type
NodeStampBase(t) ==
  /\ At(t, "node", "stamp")
  /\ steps < StepCap
  /\ LET f == Top(t) IN
       /\ ctx' = [ctx EXCEPT ![f.shared].state = "Node"]
       /\ stack' = SetTop(t, [f EXCEPT !.pc = NextPhase("stamp")])
       /\ trace' = [trace EXCEPT ![t] =
                      <<Ev("run", FALSE, heap[f.self].cls, f.self, EmptyDict,
                           f.shared)>>]
  /\ steps' = steps + 1
  /\ UNCHANGED <<fin, path, phase, slot, heap, instDict, refs, hooks, expr>>

\* counting hooks: prelude returns shared["cmpnt"][key]["n"] and postlude
\* stores prelude_res + 1 there
Counting == hooks \in {"same", "own"}
\* faulty variant: every type counts under the one key
CounterKeyShared(cls) == "M"
\* the component a type's counting hooks use: its own, or one for all
CounterKey(cls) == IF hooks = "own" THEN cls ELSE "M"

\* Node._run: shared["state"] = type name, then BaseNode._run
NodeStamp(t) ==
  /\ At(t, "node", "stamp")
  /\ steps < StepCap
  /\ LET f == Top(t) IN
       /\ ctx' = [ctx EXCEPT ![f.shared].state = heap[f.self].cls]
       /\ stack' = SetTop(t, [f EXCEPT !.pc = NextPhase("stamp")])
       /\ trace' = [trace EXCEPT ![t] =
                      <<Ev("run", FALSE, heap[f.self].cls, f.self, EmptyDict,
                           f.shared)>>]
  /\ steps' = steps + 1
  /\ UNCHANGED <<fin, path, phase, slot, heap, instDict, refs, hooks, expr>>

\* Node._prep: merge the configuration, call prelude when the type has one.
\* An arbitrary prelude counts itself in shared["cmpnt"]["M"]["n"] and
\* returns the count, or raises; the test file's preludes only return.
NodePrep(t) ==
  /\ At(t, "node", "prep")
  /\ LET f == Top(t)
         o == heap[f.self]
         cfg == MergeCfg(ctx[f.shared], o.cls)
         n == ctx[f.shared].cmpnt["M"].n + 1
     IN
       IF ~HasHook(o.cls, "prelude")
       THEN /\ trace' = Logged(t, <<Ev("prep", FALSE, NoneV, 0, cfg, f.shared)>>)
            /\ stack' = SetTop(t, [f EXCEPT !.cfg = cfg, !.pre = 0,
                                            !.waits = CopyWaits(o),
                                            !.pc = NextPhase("prep")])
            /\ UNCHANGED <<ctx, fin, path>>
       ELSE IF hooks = "test"
       THEN /\ trace' = Logged(t, <<Ev("prep", TRUE, "ok", 0, cfg, f.shared)>>)
            /\ stack' = SetTop(t, [f EXCEPT !.cfg = cfg, !.pre = 0,
                                            !.waits = CopyWaits(o),
                                            !.pc = NextPhase("prep")])
            /\ UNCHANGED <<ctx, fin, path>>
       ELSE IF hooks = "show"
       THEN LET r == ShowPrelude(o.cls, ctx[f.shared]) IN
            /\ trace' = Logged(t, <<Ev("prep", TRUE, r.pre, 0, cfg, f.shared)>>)
            /\ ctx' = [ctx EXCEPT ![f.shared] = r.sh]
            /\ stack' = SetTop(t, [f EXCEPT !.cfg = cfg, !.pre = r.pre,
                                            !.waits = CopyWaits(o),
                                            !.pc = NextPhase("prep")])
            /\ UNCHANGED <<fin, path>>
       ELSE IF hooks = "cfg"
       THEN LET sh == ctx[f.shared]
                g == [k \in DOMAIN sh.config |-> sh.config[k] + 1]
                old == sh.cmpnt["D"]["config"]
                c == [k \in DOMAIN old |-> old[k] + 1]
            IN
            /\ trace' = Logged(t, <<Ev("prep", TRUE, "ok", 0, cfg, f.shared)>>)
            /\ ctx' = [ctx EXCEPT ![f.shared].config = g,
                                  ![f.shared].cmpnt["D"]["config"] = c]
            /\ stack' = SetTop(t, [f EXCEPT !.cfg = cfg, !.pre = 0,
                                            !.waits = CopyWaits(o),
                                            !.pc = NextPhase("prep")])
            /\ UNCHANGED <<fin, path>>
       ELSE IF Counting
       THEN LET read == ctx[f.shared].cmpnt[CounterKey(o.cls)].n IN
            /\ trace' = Logged(t, <<Ev("prep", TRUE, "ok", read, cfg, f.shared)>>)
            /\ stack' = SetTop(t, [f EXCEPT !.cfg = cfg, !.pre = read,
                                            !.waits = CopyWaits(o),
                                            !.pc = NextPhase("prep")])
            /\ UNCHANGED <<ctx, fin, path>>
       ELSE \/ /\ trace' = Logged(t, <<Ev("prep", TRUE, Raised, 0, cfg, f.shared)>>)
               /\ path' = Done(t, f.self, Raised)
               /\ Raise(t)
               /\ ctx' = Unwind(ctx)
            \/ /\ trace' = Logged(t, <<Ev("prep", TRUE, "ok", n, cfg, f.shared)>>)
               /\ ctx' = [ctx EXCEPT ![f.shared].cmpnt["M"].n = n]
               /\ stack' = SetTop(t, [f EXCEPT !.cfg = cfg, !.pre = n,
                                               !.waits = CopyWaits(o),
                                               !.pc = NextPhase("prep")])
               /\ UNCHANGED <<fin, path>>
  /\ UNCHANGED <<steps, phase, slot, heap, instDict, refs, hooks, expr>>

\* faulty variant: the waits are popped from the Node's stored schedule
NodeExecConsume(t) ==
  /\ At(t, "node", "exec")
  /\ hooks = "any"
  /\ HasHook(heap[Top(t).self].cls, "dispatch")
  /\ LET f == Top(t)
         d == OnExecFailure(heap[f.self].retry_waits)
         failed == Ev("exec", TRUE, Raised, f.pre, f.cfg, ExecShared(f))
     IN
       \/ /\ trace' = Logged(t, <<Ev("exec", TRUE, "ok", f.pre, f.cfg,
                                   ExecShared(f))>>)
          /\ stack' = SetTop(t, [f EXCEPT !.res = "ok",
                                          !.pc = NextPhase("exec")])
          /\ UNCHANGED <<ctx, fin, path, heap>>
       \/ /\ d.retry
          /\ trace' = Logged(t, <<failed,
                                  Ev("sleep", FALSE, NoneV, d.w, EmptyDict,
                                     Null)>>)
          /\ heap' = [heap EXCEPT ![f.self].retry_waits = d.rest]
          /\ UNCHANGED <<ctx, fin, path, stack>>
       \/ /\ ~d.retry
          /\ trace' = Logged(t, <<failed>>)
          /\ path' = Done(t, f.self, Raised)
          /\ ExecFallback(t)
          /\ ctx' = Unwind(ctx)
          /\ UNCHANGED heap
  /\ UNCHANGED <<steps, phase, slot, instDict, refs, hooks, expr>>

\* Node._exec1: one attempt of _exec; on failure sleep for the next wait and
\* stay, or re-raise through _exec_fallback when no wait is left.  An
\* arbitrary dispatch returns or raises; the test file's ANode.dispatch
\* returns "default".
NodeExec(t) ==
  /\ At(t, "node", "exec")
  /\ LET f == Top(t)
         o == heap[f.self]
         d == OnExecFailure(f.waits)
         failed == Ev("exec", TRUE, Raised, f.pre, f.cfg, ExecShared(f))
     IN
       IF ~HasHook(o.cls, "dispatch")
       THEN /\ trace' = Logged(t, <<Ev("exec", FALSE, NoneV, f.pre, f.cfg,
                                    ExecShared(f))>>)
            /\ stack' = SetTop(t, [f EXCEPT !.res = NoneV,
                                            !.pc = NextPhase("exec")])
            /\ UNCHANGED <<ctx, fin, path>>
       ELSE IF hooks = "test" \/ Counting
       THEN /\ trace' = Logged(t, <<Ev("exec", TRUE, "ok", f.pre, f.cfg,
                                    ExecShared(f))>>)
            /\ stack' = SetTop(t, [f EXCEPT !.res = "default",
                                            !.pc = NextPhase("exec")])
            /\ UNCHANGED <<ctx, fin, path>>
       ELSE IF hooks = "show"
       THEN \E ans \in Answers :
              LET r == ShowDispatch(o.cls, f.pre, f.cfg, ans)
                  hit == Ev("exec", TRUE, r.act, 0, f.cfg, ExecShared(f))
              IN
                \/ /\ r.act # Raised
                   /\ trace' = Logged(t, <<hit>>)
                   /\ stack' = SetTop(t, [f EXCEPT !.res = r,
                                                   !.pc = NextPhase("exec")])
                   /\ UNCHANGED <<ctx, fin, path>>
                \/ /\ r.act = Raised
                   /\ d.retry
                   /\ trace' = Logged(t, <<hit,
                                           Ev("sleep", FALSE, NoneV, d.w,
                                              EmptyDict, Null)>>)
                   /\ stack' = SetTop(t, [f EXCEPT !.waits = d.rest])
                   /\ UNCHANGED <<ctx, fin, path>>
                \/ /\ r.act = Raised
                   /\ ~d.retry
                   /\ trace' = Logged(t, <<hit>>)
                   /\ path' = Done(t, f.self, Raised)
                   /\ ExecFallback(t)
                   /\ ctx' = Unwind(ctx)
       ELSE \/ /\ trace' = Logged(t, <<Ev("exec", TRUE, "ok", f.pre, f.cfg,
                                       ExecShared(f))>>)
               /\ stack' = SetTop(t, [f EXCEPT !.res = "ok",
                                               !.pc = NextPhase("exec")])
               /\ UNCHANGED <<ctx, fin, path>>
            \/ /\ d.retry
               /\ trace' = Logged(t, <<failed,
                                       Ev("sleep", FALSE, NoneV, d.w, EmptyDict,
                                          Null)>>)
               /\ stack' = SetTop(t, [f EXCEPT !.waits = d.rest])
               /\ UNCHANGED <<ctx, fin, path>>
            \/ /\ ~d.retry
               /\ trace' = Logged(t, <<failed>>)
               /\ path' = Done(t, f.self, Raised)
               /\ ExecFallback(t)
               /\ ctx' = Unwind(ctx)
  /\ UNCHANGED <<steps, phase, slot, heap, instDict, refs, hooks, expr>>

\* faulty variant: _post merges the configuration again for postlude
NodePostFreshCfg(t) ==
  /\ At(t, "node", "post")
  /\ hooks = "cfg"
  /\ LET f == Top(t)
         o == heap[f.self]
         seen == ctx[PostShared(f)].cmpnt["M"].n
     IN
       \E v \in Outcomes :
         /\ trace' = Logged(t, <<Ev("post", TRUE, v, seen,
                                    MergeCfg(ctx[PostShared(f)], o.cls),
                                    PostShared(f))>>)
         /\ path' = Done(t, f.self, v)
         /\ Return(t, v)
  /\ UNCHANGED <<ctx, steps, phase, slot, heap, instDict, refs, hooks, expr>>

\* faulty variant: without a postlude, or when postlude returns None, the
\* value of dispatch becomes the outcome
NodePostExecRes(t) ==
  /\ At(t, "node", "post")
  /\ hooks = "any"
  /\ LET f == Top(t)
         o == heap[f.self]
         seen == ctx[PostShared(f)].cmpnt["M"].n
     IN
       \E v \in IF HasHook(o.cls, "postlude") THEN Outcomes ELSE {NoneV} :
         LET out == IF v = NoneV THEN f.res ELSE v IN
           /\ trace' = Logged(t, <<Ev("post", HasHook(o.cls, "postlude"), v, seen,
                                      f.cfg, PostShared(f))>>)
           /\ path' = Done(t, f.self, out)
           /\ Return(t, out)
  /\ UNCHANGED <<ctx, steps, phase, slot, heap, instDict, refs, hooks, expr>>

\* Node._post: call postlude when the type has one; its value is the
\* outcome of the run.  An arbitrary postlude reads the count in the shared
\* context it is given, then returns a label or raises; the test file's
\* postludes are TestPostlude.
NodePost(t) ==
  /\ At(t, "node", "post")
  /\ LET f == Top(t)
         o == heap[f.self]
         seen == ctx[PostShared(f)].cmpnt["M"].n
         r == TestPostlude(o.cls, ctx[PostShared(f)])
     IN
       IF ~HasHook(o.cls, "postlude")
       THEN /\ trace' = Logged(t, <<Ev("post", FALSE, NoneV, seen, f.cfg,
                                    PostShared(f))>>)
            /\ path' = Done(t, f.self, NoneV)
            /\ Return(t, NoneV)
            /\ UNCHANGED ctx
       ELSE IF hooks = "test"
       THEN /\ trace' = Logged(t, <<Ev("post", TRUE, r.out, seen, f.cfg,
                                    PostShared(f))>>)
            /\ ctx' = [ctx EXCEPT ![PostShared(f)] = r.sh]
            /\ path' = Done(t, f.self, r.out)
            /\ Return(t, r.out)
       ELSE IF hooks = "show"
       THEN LET s == ShowPostlude(o.cls, ctx[PostShared(f)], f.res) IN
            /\ trace' = Logged(t, <<Ev("post", TRUE, s.out, 0, f.cfg,
                                    PostShared(f))>>)
            /\ ctx' = [ctx EXCEPT ![PostShared(f)] = s.sh]
            /\ path' = Done(t, f.self, s.out)
            /\ Return(t, s.out)
       ELSE IF Counting
       THEN /\ trace' = Logged(t, <<Ev("post", TRUE, NoneV, f.pre + 1, f.cfg,
                                    PostShared(f))>>)
            /\ ctx' = [ctx EXCEPT
                         ![PostShared(f)].cmpnt[CounterKey(o.cls)].n = f.pre + 1]
            /\ path' = Done(t, f.self, NoneV)
            /\ Return(t, NoneV)
       ELSE \/ /\ trace' = Logged(t, <<Ev("post", TRUE, Raised, seen, f.cfg,
                                       PostShared(f))>>)
               /\ path' = Done(t, f.self, Raised)
               /\ Raise(t)
               /\ ctx' = Unwind(ctx)
            \/ \E v \in Outcomes :
                 /\ trace' = Logged(t, <<Ev("post", TRUE, v, seen, f.cfg,
                                         PostShared(f))>>)
                 /\ path' = Done(t, f.self, v)
                 /\ Return(t, v)
                 /\ UNCHANGED ctx
  /\ UNCHANGED <<steps, phase, slot, heap, instDict, refs, hooks, expr>>

(* ------------------------------- Flow --------------------------------- *)
\* faulty variant: the stage is started on another thread and the loop goes
\* on without its outcome
FlowCallAsync(t) ==
  /\ At(t, "flow", "loop")
  /\ Top(t).curr # Null
  /\ stack' = Push(SetTop(t, [Top(t) EXCEPT !.pc = "ret", !.res = NoneV]), 1,
                   EntryFrame(heap, Top(t).curr, Top(t).shared))
  /\ UNCHANGED <<ctx, fin, trace, path, steps, phase, slot, heap, instDict, refs, hooks, expr>>

\* Flow._loop, `while curr:` taken: last_action = curr._run(shared)
FlowCall(t) ==
  /\ At(t, "flow", "loop")
  /\ Top(t).curr # Null
  /\ stack' = Push(SetTop(t, [Top(t) EXCEPT !.pc = "wait"]), t,
                   EntryFrame(heap, Top(t).curr, Top(t).shared))
  /\ UNCHANGED <<ctx, fin, trace, path, steps, phase, slot, heap, instDict, refs, hooks, expr>>

\* faulty variant: cycle detection, a stage that has run before is not run again
FlowNextOnce(t) ==
  /\ At(t, "flow", "ret")
  /\ LET f == Top(t)
         nxt == get_next_node(heap[f.curr].successors, f.res)
     IN
       stack' = SetTop(t, [f EXCEPT
                   !.curr = IF \E i \in DOMAIN path : path[i].o = nxt
                            THEN Null ELSE nxt,
                   !.pc = "loop"])
  /\ UNCHANGED <<ctx, fin, trace, path, steps, phase, slot, heap, instDict, refs, hooks, expr>>

\* faulty variant: the outcome is looked up in the map of the Node that
\* produced it, not in the map of the stage the loop ran
FlowNextInner(t) ==
  /\ At(t, "flow", "ret")
  /\ LET f == Top(t)
         ns == {i \in DOMAIN path : heap[path[i].o].kind = "node"}
         last == IF ns = {} THEN f.curr
                 ELSE path[CHOOSE i \in ns : \A j \in ns : j <= i].o
     IN
       stack' = SetTop(t, [f EXCEPT
                   !.curr = get_next_node(heap[last].successors, f.res),
                   !.pc = "loop"])
  /\ UNCHANGED <<ctx, fin, trace, path, steps, phase, slot, heap, instDict, refs, hooks, expr>>

\* Flow._loop after the stage returned: curr = get_next_node(curr, last_action)
FlowNext(t) ==
  /\ At(t, "flow", "ret")
  /\ LET f == Top(t) IN
       stack' = SetTop(t, [f EXCEPT
                   !.curr = get_next_node(heap[f.curr].successors, f.res),
                   !.pc = "loop"])
  /\ UNCHANGED <<ctx, fin, trace, path, steps, phase, slot, heap, instDict, refs, hooks, expr>>

\* faulty variant: a null outcome is reported as the default label
FlowPostDefault(exec_res) == ActionKey(exec_res)

\* Flow._post(shared, prep_res, exec_res): return exec_res
FlowPost(exec_res) == exec_res

\* Flow._loop, `while curr:` not taken: return last_action; Flow._run hands
\* it to _post
FlowReturn(t) ==
  /\ At(t, "flow", "loop")
  /\ Top(t).curr = Null
  /\ path' = Done(t, Top(t).self, FlowPost(Top(t).res))
  /\ Return(t, FlowPost(Top(t).res))
  /\ UNCHANGED <<ctx, trace, steps, phase, slot, heap, instDict, refs, hooks, expr>>

(* --------------------------- ParallelStep ----------------------------- *)
Min(a, b) == IF a < b THEN a ELSE b
\* a thread index is free for a new actor before its first actor and after
\* its last one was stopped
FreeWorkers(sl) == {w \in Workers : sl[w].st \in {"free", "stopped"}}
\* the next n actor threads, in the order PSlot.start creates them
Alloc(sl, n) ==
  [i \in 1..n |->
     CHOOSE w \in FreeWorkers(sl) :
       Cardinality({v \in FreeWorkers(sl) : v < w}) = i - 1]

\* faulty variant: the last child's result is returned
LastResult(results) == results[Len(results)]

\* ParallelStep._post: the value returned once every future is resolved
FirstResult(results) == results[1]

\* ParallelStep._prep: [PSlot.start(shared) for _ in self._tasks]
ParPrep(t) ==
  /\ At(t, "par", "prep")
  /\ LET f == Top(t)
         n == Len(heap[f.self].tasks)
     IN
       /\ Cardinality(FreeWorkers(slot)) >= n
       /\ LET ws == Alloc(slot, n) IN
            /\ slot' = [w \in Workers |->
                          IF \E i \in 1..n : ws[i] = w
                          THEN [st |-> "started", shared |-> f.shared,
                                msg |-> Null, task |-> Null]
                          ELSE slot[w]]
            /\ fin' = [w \in Threads |->
                         IF \E i \in 1..n : ws[i] = w THEN NoFin ELSE fin[w]]
            /\ stack' = SetTop(t, [f EXCEPT !.slots = ws,
                                            !.pc = NextPhase("prep")])
  /\ UNCHANGED <<ctx, trace, path, steps, phase, heap, instDict, refs, hooks, expr>>

\* BaseNode._exec1: nothing to do, returns None
ParExec(t) ==
  /\ At(t, "par", "exec")
  /\ stack' = SetTop(t, [Top(t) EXCEPT !.pc = NextPhase("exec")])
  /\ UNCHANGED <<ctx, fin, trace, path, steps, phase, slot, heap, instDict,
                 refs, hooks, expr>>

\* ParallelStep._post, first comprehension: p.ask(f, block=False) for the
\* next pair of zip(prep_res, self._tasks)
ParAsk(t) ==
  /\ At(t, "par", "post")
  /\ LET f == Top(t)
         n == Min(Len(f.slots), Len(heap[f.self].tasks))
     IN
       /\ f.i < n
       /\ slot' = [slot EXCEPT ![f.slots[f.i + 1]].msg =
                                  heap[f.self].tasks[f.i + 1]]
       /\ stack' = SetTop(t, [f EXCEPT !.i = f.i + 1])
  /\ UNCHANGED <<ctx, fin, trace, path, steps, phase, heap, instDict, refs, hooks, expr>>

\* faulty variant: a child's exception is taken for the result None
ParGetSwallow(t) ==
  /\ At(t, "par", "post")
  /\ LET f == Top(t)
         n == Min(Len(f.slots), Len(heap[f.self].tasks))
     IN
       /\ f.i = n
       /\ Len(f.results) < n
       /\ LET w == f.slots[Len(f.results) + 1] IN
            /\ fin[w].st \in {"returned", "raised"}
            /\ stack' = SetTop(t, [f EXCEPT
                          !.results = Append(@, IF fin[w].st = "raised"
                                                THEN NoneV ELSE fin[w].val)])
            /\ UNCHANGED <<ctx, fin, path>>
  /\ UNCHANGED <<trace, steps, phase, slot, heap, instDict, refs, hooks, expr>>

\* faulty variant: get() gives up on a future that is not resolved yet
ParGetTimeout(t) ==
  /\ At(t, "par", "post")
  /\ LET f == Top(t)
         n == Min(Len(f.slots), Len(heap[f.self].tasks))
     IN
       /\ f.i = n
       /\ Len(f.results) < n
       /\ LET w == f.slots[Len(f.results) + 1] IN
            \/ /\ fin[w].st # "raised"
               /\ stack' = SetTop(t, [f EXCEPT
                             !.results = Append(@, fin[w].val)])
               /\ UNCHANGED <<ctx, fin, path>>
            \/ /\ fin[w].st = "raised"
               /\ path' = Done(t, f.self, Raised)
               /\ Raise(t)
               /\ ctx' = Unwind(ctx)
  /\ UNCHANGED <<trace, steps, phase, slot, heap, instDict, refs, hooks, expr>>

\* ParallelStep._post, second comprehension: f.get() blocks until the next
\* future is resolved, and re-raises the child's exception
ParGet(t) ==
  /\ At(t, "par", "post")
  /\ LET f == Top(t)
         n == Min(Len(f.slots), Len(heap[f.self].tasks))
     IN
       /\ f.i = n
       /\ Len(f.results) < n
       /\ LET w == f.slots[Len(f.results) + 1] IN
            \/ /\ fin[w].st = "returned"
               /\ stack' = SetTop(t, [f EXCEPT
                             !.results = Append(@, fin[w].val)])
               /\ UNCHANGED <<ctx, fin, path>>
            \/ /\ fin[w].st = "raised"
               /\ path' = Done(t, f.self, Raised)
               /\ Raise(t)
               /\ ctx' = Unwind(ctx)
  /\ UNCHANGED <<trace, steps, phase, slot, heap, instDict, refs, hooks, expr>>

\* faulty variant: only the first worker is stopped
ParStopFirst(t) ==
  /\ At(t, "par", "post")
  /\ LET f == Top(t)
         n == Min(Len(f.slots), Len(heap[f.self].tasks))
     IN
       /\ f.i = n
       /\ Len(f.results) = n
       /\ slot' = [w \in Workers |->
                     IF Len(f.slots) > 0 /\ f.slots[1] = w
                     THEN [slot[w] EXCEPT !.st = "stopped"]
                     ELSE slot[w]]
       /\ stack' = SetTop(t, [f EXCEPT !.pc = "stopped"])
  /\ UNCHANGED <<ctx, fin, trace, path, steps, phase, heap, instDict, refs, hooks, expr>>

\* ParallelStep._post: for s in prep_res: s.stop()
ParStop(t) ==
  /\ At(t, "par", "post")
  /\ LET f == Top(t)
         n == Min(Len(f.slots), Len(heap[f.self].tasks))
     IN
       /\ f.i = n
       /\ Len(f.results) = n
       /\ slot' = [w \in Workers |->
                     IF \E i \in 1..Len(f.slots) : f.slots[i] = w
                     THEN [slot[w] EXCEPT !.st = "stopped"]
                     ELSE slot[w]]
       /\ stack' = SetTop(t, [f EXCEPT !.pc = "stopped"])
  /\ UNCHANGED <<ctx, fin, trace, path, steps, phase, heap, instDict, refs, hooks, expr>>

\* faulty variant: without results the step returns None
ParReturnNone(t) ==
  /\ At(t, "par", "stopped")
  /\ LET f == Top(t)
         v == IF f.results = <<>> THEN NoneV ELSE FirstResult(f.results)
     IN
       /\ path' = Done(t, f.self, v)
       /\ Return(t, v)
  /\ UNCHANGED <<ctx, trace, steps, phase, slot, heap, instDict, refs, hooks, expr>>

\* ParallelStep._post: return results[0]; IndexError when there is none
ParReturn(t) ==
  /\ At(t, "par", "stopped")
  /\ LET f == Top(t) IN
       IF f.results = <<>>
       THEN /\ path' = Done(t, f.self, Raised)
            /\ Raise(t)
            /\ ctx' = Unwind(ctx)
       ELSE /\ path' = Done(t, f.self, FirstResult(f.results))
            /\ Return(t, FirstResult(f.results))
            /\ UNCHANGED ctx
  /\ UNCHANGED <<trace, steps, phase, slot, heap, instDict, refs, hooks, expr>>

\* PSlot.on_receive(flow): return flow.run(shared=self._shared)
WorkerReceive(w) ==
  /\ slot[w].st = "started"
  /\ slot[w].msg # Null
  /\ stack[w] = <<>>
  /\ stack' = Push(stack, w, EntryFrame(heap, slot[w].msg, slot[w].shared))
  /\ slot' = [slot EXCEPT ![w].msg = Null, ![w].task = slot[w].msg]
  /\ UNCHANGED <<ctx, fin, trace, path, steps, phase, heap, instDict, refs, hooks, expr>>

\* ParallelStep.__getitem__ on a sequence: self._tasks = tuple(tasks)
ParGetItem(o, tasks) == [o EXCEPT !.tasks = tasks]

\* what is written between the brackets of p[...]: one stage, or a sequence
OneStage(o) == [single |-> TRUE, ref |-> o, seq |-> <<>>]
StageSeq(q) == [single |-> FALSE, ref |-> Null, seq |-> q]
\* ParallelStep.__getitem__(tasks): a Node or a Flow becomes (tasks,);
\* whatever else is iterated.  Iterating a ParallelStep goes through its
\* own __getitem__(0), which tries to iterate 0: TypeError, and no _tasks
\* is assigned
getitem(h, p, x) ==
  IF x.single
  THEN IF h[x.ref].kind \in {"node", "flow"}
       THEN [heap |-> [h EXCEPT ![p] = ParGetItem(@, <<x.ref>>)],
             ret |-> p, raised |-> FALSE]
       ELSE [heap |-> h, ret |-> Null, raised |-> TRUE]
  ELSE [heap |-> [h EXCEPT ![p] = ParGetItem(@, x.seq)],
        ret |-> p, raised |-> FALSE]

(* --------------------------- the caller ------------------------------- *)
\* Flow(start=None)
NewFlow(h) == Append(h, [RawObject("flow", "Flow") EXCEPT !.initialized = TRUE])
\* ParallelStep(): _tasks = ()
NewParallelStep(h) ==
  Append(h, [RawObject("par", "ParallelStep") EXCEPT !.initialized = TRUE])

Nodes == {o \in DOMAIN heap : heap[o].kind = "node"}
Flows == {o \in DOMAIN heap : heap[o].kind = "flow"}
Pars == {o \in DOMAIN heap : heap[o].kind = "par"}
\* the child lists a caller configures: up to MaxTasks Nodes, in order
TaskLists == UNION {[1..n -> Nodes] : n \in 0..MaxTasks}
EdgeCount == LET S == {<<o, a>> \in (DOMAIN heap) \X Labels :
                         a \in DOMAIN heap[o].successors}
             IN Cardinality(S)

\* src.next(tgt, action), also written src - action >> tgt
AddEdge(src, action, tgt) ==
  /\ phase = "build"
  /\ action \in DOMAIN heap[src].successors \/ EdgeCount < MaxEdges
  /\ heap' = [heap EXCEPT ![src] = AddSuccessor(@, action, tgt)]
  /\ UNCHANGED <<ctx, stack, fin, trace, path, steps, phase, slot, instDict, refs, hooks, expr>>

\* flow.start(o)
SetStart(fl, o) ==
  /\ phase = "build"
  /\ heap[fl].start_node # o
  /\ heap' = [heap EXCEPT ![fl].start_node = o]
  /\ UNCHANGED <<ctx, stack, fin, trace, path, steps, phase, slot, instDict, refs, hooks, expr>>

\* p[tasks]
Configure(p, tasks) ==
  /\ phase = "build"
  /\ heap[p].tasks # tasks
  /\ heap' = [heap EXCEPT ![p] = ParGetItem(@, tasks)]
  /\ UNCHANGED <<ctx, stack, fin, trace, path, steps, phase, slot, instDict, refs, hooks, expr>>

\* faulty variant: run drops the successors it ignores
RunConsume(o) ==
  /\ phase = "build"
  /\ phase' = "run"
  /\ stack' = Push(stack, Main, EntryFrame(heap, o, CallerCtx))
  /\ heap' = [heap EXCEPT ![o].successors = EmptyDict]
  /\ UNCHANGED <<ctx, fin, trace, path, steps, slot, instDict, refs, hooks, expr>>

\* o.run(shared): BaseNode.run calls self._run(shared)
Run(o) ==
  /\ phase = "build"
  /\ phase' = "run"
  /\ stack' = Push(stack, Main, EntryFrame(heap, o, CallerCtx))
  /\ UNCHANGED <<ctx, fin, trace, path, steps, slot, heap, instDict, refs, hooks, expr>>

NoArg == [none |-> TRUE, w |-> <<>>]
\* the caller has constructed ANode(retry_waits=arg), BNode(), Flow() and
\* ParallelStep(), in this order
World(arg) ==
  LET a == NewNode(<<>>, InstDict0, "ANode", arg)
      b == NewNode(a.heap, a.dict, "BNode", NoArg)
  IN [heap |-> NewParallelStep(NewFlow(b.heap)),
      dict |-> b.dict,
      refs |-> <<[cls |-> "ANode", arg |-> arg, ref |-> a.ref],
                 [cls |-> "BNode", arg |-> NoArg, ref |-> b.ref]>>]

Built(arg) ==
  /\ heap = World(arg).heap
  /\ instDict = World(arg).dict
  /\ refs = World(arg).refs

\* the same, and Node() constructed last
BuiltWithNode(arg) ==
  LET n == NewNode(World(arg).heap, World(arg).dict, "Node", NoArg) IN
    /\ heap = n.heap
    /\ instDict = n.dict
    /\ refs = Append(World(arg).refs,
                     [cls |-> "Node", arg |-> NoArg, ref |-> n.ref])

(* --------------------- Flow traversal: Spec --------------------------- *)
Init ==
  /\ \E arg \in Args : Built(arg)
  /\ ctx = [c \in CtxIds |-> SharedData(TestConfig, TestCmpnt)]
  /\ phase = "build"
  /\ Idle
  /\ hooks = "any"

Wire ==
  \/ \E src \in Nodes, a \in Labels, tgt \in Nodes : AddEdge(src, a, tgt)
  \/ \E fl \in Flows, o \in Nodes : SetStart(fl, o)

NodeStep(t) == NodeStamp(t) \/ NodePrep(t) \/ NodeExec(t) \/ NodePost(t)
FlowStep(t) == FlowCall(t) \/ FlowNext(t) \/ FlowReturn(t)

Next ==
  \/ Wire
  \/ \E fl \in Flows : Run(fl)
  \/ \E t \in Threads : NodeStep(t)
  \/ \E t \in Threads : FlowStep(t)

Spec == Init /\ [][Next]_vars

(* ------------------- a Node run directly: SpecNode -------------------- *)
InitNode ==
  /\ \E arg \in Args : BuiltWithNode(arg)
  /\ \E g \in Dicts, d \in CmpntChoices :
       ctx = [c \in CtxIds |-> SharedData(g, d)]
  /\ phase = "build"
  /\ Idle
  /\ hooks = "any"

NextNode ==
  \/ \E o \in Nodes : Run(o)
  \/ \E t \in Threads : NodeStep(t)

SpecNode == InitNode /\ [][NextNode]_vars

(* ------------- a Flow over Nodes with and without hooks: SpecBare ----- *)
\* ANode(), BNode(), Flow(), ParallelStep() and Node(), which has no hook
InitBare ==
  /\ BuiltWithNode(NoArg)
  /\ ctx = [c \in CtxIds |-> SharedData(TestConfig, TestCmpnt)]
  /\ phase = "build"
  /\ Idle
  /\ hooks = "any"

SpecBare == InitBare /\ [][Next]_vars

(* ------------- a prelude that rewrites the configuration: SpecCfg ----- *)
\* every prelude adds 1 to each value of shared["config"] and of
\* shared["cmpnt"]["D"]["config"]
InitCfg ==
  /\ \E arg \in Args : Built(arg)
  /\ ctx = [c \in CtxIds |-> SharedData(TestConfig, TestCmpnt)]
  /\ phase = "build"
  /\ Idle
  /\ hooks = "cfg"

SpecCfg == InitCfg /\ [][Next]_vars

(* ------------- the flow of llm_flow_showcase.py: SpecShow ------------- *)
\* the transitions the script registers, in its order: source, label, target
ShowEdges ==
  <<<<"PromptGenerationNode", "prompt_generated", "GemmaEvaluationNode">>,
    <<"GemmaEvaluationNode", DefaultAction, "AssessmentNode">>,
    <<"AssessmentNode", "satisfied_end_flow", "FlowEndNode">>,
    <<"AssessmentNode", "max_rounds_end_flow", "FlowEndNode">>,
    <<"AssessmentNode", "assessment_failed_end_flow", "FlowEndNode">>,
    <<"AssessmentNode", "unsatisfied_loop_back", "PromptGenerationNode">>,
    <<"PromptGenerationNode", "max_rounds_exceeded", "FlowEndNode">>,
    <<"PromptGenerationNode", "error_problem_def_missing", "FlowEndNode">>,
    <<"GemmaEvaluationNode", "evaluation_error_no_prompt", "FlowEndNode">>>>

\* the heap after the first n of these statements; `a >> b` registers under
\* the default label, `a - label >> b` under label
RECURSIVE ShowWired(_, _, _)
ShowWired(h, d, n) ==
  IF n = 0 THEN h
  ELSE LET e == ShowEdges[n]
           g == ShowWired(h, d, n - 1)
       IN IF e[2] = DefaultAction
          THEN rshift(g, d[e[1]], d[e[3]]).heap
          ELSE TransRshift(g, sub(d[e[1]], e[2]), d[e[3]]).heap

\* the four Nodes constructed without arguments, wired, and
\* Flow(start=prompt_gen_node)
ShowWorld ==
  LET p == NewNode(<<>>, InstDict0, "PromptGenerationNode", NoArg)
      g == NewNode(p.heap, p.dict, "GemmaEvaluationNode", NoArg)
      a == NewNode(g.heap, g.dict, "AssessmentNode", NoArg)
      e == NewNode(a.heap, a.dict, "FlowEndNode", NoArg)
      fl == NewFlow(ShowWired(e.heap, e.dict, Len(ShowEdges)))
  IN [heap |-> [fl EXCEPT ![Len(fl)].start_node = p.ref],
      dict |-> e.dict,
      refs |-> <<[cls |-> "PromptGenerationNode", arg |-> NoArg, ref |-> p.ref],
                 [cls |-> "GemmaEvaluationNode", arg |-> NoArg, ref |-> g.ref],
                 [cls |-> "AssessmentNode", arg |-> NoArg, ref |-> a.ref],
                 [cls |-> "FlowEndNode", arg |-> NoArg, ref |-> e.ref]>>]

\* the context a caller passes: the script's, with or without an API key, a
\* problem definition and an earlier Gemma response, at any round count
ShowShared(key, pd, rc, resp) ==
  SharedData([k \in {"gemini_client", "ollama_client"} |->
                IF k = "gemini_client" THEN key ELSE 1],
             [c \in {"LLM_ITERATOR"} |->
                [problem_definition |-> pd,
                 round_count |-> rc,
                 current_gemma_response |-> resp,
                 config |-> [k \in {"gemma_prompt_generation_template",
                                    "assessment_prompt_template"} |-> 1]]])

InitShow ==
  /\ heap = ShowWorld.heap
  /\ instDict = ShowWorld.dict
  /\ refs = ShowWorld.refs
  /\ \E key \in {0, 1}, pd \in {"", "poem"}, rc \in 0..(MaxRounds + 1),
        resp \in {NoneV, "text"} :
       ctx = [c \in CtxIds |-> ShowShared(key, pd, rc, resp)]
  /\ phase = "build"
  /\ Idle
  /\ hooks = "show"

\* flow.run(shared), or one of the Nodes run on its own
NextShow ==
  \/ \E o \in Nodes \cup Flows : Run(o)
  \/ \E t \in Threads : NodeStep(t)
  \/ \E t \in Threads : FlowStep(t)

\* run is one sequential call: a step that can be taken is taken
SpecShow ==
  /\ InitShow
  /\ [][NextShow]_vars
  /\ WF_vars(\E t \in Threads : NodeStep(t) \/ FlowStep(t))

(* ------------- a Node with successors run directly: SpecRun ----------- *)
NextRun ==
  \/ \E src \in Nodes, a \in Labels, tgt \in Nodes : AddEdge(src, a, tgt)
  \/ \E o \in Nodes : Run(o)
  \/ \E t \in Threads : NodeStep(t)

SpecRun == Init /\ [][NextRun]_vars

(* ------------------- ParallelStep: SpecPar ---------------------------- *)
InitPar ==
  /\ Built(NoArg)
  /\ ctx = [c \in CtxIds |-> SharedData(TestConfig, TestCmpnt)]
  /\ phase = "build"
  /\ Idle
  /\ hooks = "any"

ParStep(t) ==
  ParPrep(t) \/ ParExec(t) \/ ParAsk(t) \/ ParGet(t) \/ ParStop(t)
    \/ ParReturn(t)

NextPar ==
  \/ \E p \in Pars, ts \in TaskLists : Configure(p, ts)
  \/ \E p \in Pars : Run(p)
  \/ \E w \in Workers : WorkerReceive(w)
  \/ \E t \in Threads : NodeStep(t)
  \/ \E t \in Threads : ParStep(t)

SpecPar == InitPar /\ [][NextPar]_vars

(* ------------- the wiring expressions: SpecWire ----------------------- *)
\* the stages the caller wires: the Nodes and the ParallelStep, as the test
\* file does
WireEnds == Nodes \cup Pars
\* the caller keeps the value r.ret of an expression that registered
\* src --label--> tgt (label NoneV: none was written)
Wired(form, src, label, tgt, r, chained) ==
  /\ phase = "build"
  /\ LET key == IF label = NoneV THEN DefaultAction ELSE label IN
       key \in DOMAIN heap[src].successors \/ EdgeCount < MaxEdges
  /\ heap' = r.heap
  /\ expr' = [form |-> form, src |-> src, label |-> label, tgt |-> tgt,
              val |-> r.ret, warn |-> r.warn, chained |-> chained,
              arg |-> <<>>, raised |-> FALSE]
  /\ UNCHANGED <<ctx, stack, fin, trace, path, steps, phase, slot, instDict,
                 refs, hooks>>

\* src.next(tgt) and src.next(tgt, label)
ExprNext(src, label, tgt) ==
  Wired("next", src, label, tgt,
        IF label = NoneV THEN next(heap, src, tgt, DefaultAction)
        ELSE next(heap, src, tgt, label), FALSE)
\* src >> tgt
ExprRshift(src, tgt) ==
  Wired("rshift", src, NoneV, tgt, rshift(heap, src, tgt), FALSE)
\* src - label >> tgt
ExprSubRshift(src, label, tgt) ==
  Wired("subrshift", src, label, tgt,
        TransRshift(heap, sub(src, label), tgt), FALSE)
\* <previous expression> >> tgt
ChainRshift(tgt) ==
  /\ expr.val \in WireEnds
  /\ Wired("rshift", expr.val, NoneV, tgt, rshift(heap, expr.val, tgt), TRUE)
\* <previous expression> - label >> tgt
ChainSubRshift(label, tgt) ==
  /\ expr.val \in WireEnds
  /\ Wired("subrshift", expr.val, label, tgt,
           TransRshift(heap, sub(expr.val, label), tgt), TRUE)

NextWire ==
  \/ \E src \in WireEnds, l \in Labels \cup {NoneV}, tgt \in WireEnds :
       ExprNext(src, l, tgt)
  \/ \E src \in WireEnds, tgt \in WireEnds : ExprRshift(src, tgt)
  \/ \E src \in WireEnds, l \in Labels, tgt \in WireEnds :
       ExprSubRshift(src, l, tgt)
  \/ \E tgt \in WireEnds : ChainRshift(tgt)
  \/ \E l \in Labels, tgt \in WireEnds : ChainSubRshift(l, tgt)

SpecWire == InitPar /\ [][NextWire]_vars

(* ------------- configuring a ParallelStep: SpecConf ------------------- *)
\* p[x], evaluated by the caller
ConfigureWith(p, x) ==
  /\ phase = "build"
  /\ LET r == getitem(heap, p, x) IN
       /\ heap' = r.heap
       /\ expr' = [NoExpr EXCEPT !.form = "getitem", !.src = p, !.tgt = x.ref,
                                 !.arg = x.seq, !.val = r.ret,
                                 !.raised = r.raised]
  /\ UNCHANGED <<ctx, stack, fin, trace, path, steps, phase, slot, instDict,
                 refs, hooks>>

\* the child lists of this specification: up to MaxTasks Nodes and Flows
AnyLists == UNION {[1..n -> Nodes \cup Flows] : n \in 0..MaxTasks}

\* ANode(), BNode(), Flow(), ParallelStep() and a second ParallelStep()
InitConf ==
  /\ heap = NewParallelStep(World(NoArg).heap)
  /\ instDict = World(NoArg).dict
  /\ refs = World(NoArg).refs
  /\ ctx = [c \in CtxIds |-> SharedData(TestConfig, TestCmpnt)]
  /\ phase = "build"
  /\ Idle
  /\ hooks = "any"

NextConf ==
  \/ \E p \in Pars, o \in DOMAIN heap : ConfigureWith(p, OneStage(o))
  \/ \E p \in Pars, q \in AnyLists : ConfigureWith(p, StageSeq(q))

SpecConf == InitConf /\ [][NextConf]_vars

(* ------------- a ParallelStep with or without children: SpecEmpty ----- *)
InitEmpty ==
  /\ Built(NoArg)
  /\ ctx = [c \in CtxIds |-> SharedData(TestConfig, TestCmpnt)]
  /\ phase = "build"
  /\ Idle
  /\ hooks = "test"

NextEmpty ==
  \/ \E p \in Pars, ts \in TaskLists : ConfigureWith(p, StageSeq(ts))
  \/ \E p \in Pars : Run(p)
  \/ \E w \in Workers : WorkerReceive(w)
  \/ \E t \in Threads : NodeStep(t)
  \/ \E t \in Threads : ParStep(t)

SpecEmpty == InitEmpty /\ [][NextEmpty]_vars

(* ----------- ParallelStep with hooks that may hang: SpecHang ---------- *)
\* the hook a phase of Node calls
HookOf(pc) ==
  CASE pc = "prep" -> "prelude"
    [] pc = "exec" -> "dispatch"
    [] OTHER -> "postlude"

\* a prelude, dispatch or postlude that never returns: the thread stays in
\* the call for ever
NodeHang(t) ==
  /\ hooks = "any"
  /\ \E pc \in {"prep", "exec", "post"} :
       /\ At(t, "node", pc)
       /\ HasHook(heap[Top(t).self].cls, HookOf(pc))
  /\ stack' = SetTop(t, [Top(t) EXCEPT !.pc = "hung"])
  /\ UNCHANGED <<ctx, fin, trace, path, steps, phase, slot, heap, instDict,
                 refs, hooks, expr>>

\* the child lists of this specification: one child, or a pair [C1, C2]
ChildPairs == UNION {[1..n -> Nodes] : n \in {1, 2}}

NextHang ==
  \/ \E p \in Pars, ts \in ChildPairs : Configure(p, ts)
  \/ \E p \in Pars : Run(p)
  \/ \E w \in Workers : WorkerReceive(w)
  \/ \E w \in Workers : NodeHang(w)
  \/ \E t \in Threads : NodeStep(t)
  \/ \E t \in Threads : ParStep(t)

SpecHang == InitPar /\ [][NextHang]_vars

(* ------------- siblings that count in the context: SpecRace ----------- *)
\* a counter for all and one per Node type, next to the test file's "D"
RaceCmpnt ==
  [c \in {"M", "D", "ANode", "BNode"} |->
     IF c = "D" THEN TestCmpnt["D"] ELSE MarkComp]

InitRace ==
  /\ Built(NoArg)
  /\ ctx = [c \in CtxIds |-> SharedData(TestConfig, RaceCmpnt)]
  /\ phase = "build"
  /\ Idle
  /\ hooks \in {"same", "own"}

NextRace ==
  \/ \E p \in Pars, ts \in ChildPairs : Configure(p, ts)
  \/ \E p \in Pars : Run(p)
  \/ \E w \in Workers : WorkerReceive(w)
  \/ \E t \in Threads : NodeStep(t)
  \/ \E t \in Threads : ParStep(t)

SpecRace == InitRace /\ [][NextRace]_vars

(* ------------- a Flow as a stage of a Flow: SpecNest ------------------ *)
\* the parent Flow is the one constructed first, the nested one the second
Outer == CHOOSE o \in Flows : \A p \in Flows : o <= p
Inner == CHOOSE o \in Flows : \A p \in Flows : p <= o

\* ANode(), BNode(), outer = Flow(), ParallelStep(), inner = Flow() and
\* outer.start(inner)
InitNest ==
  /\ heap = [NewFlow(World(NoArg).heap) EXCEPT
               ![Len(World(NoArg).heap) - 1].start_node = Len(World(NoArg).heap) + 1]
  /\ instDict = World(NoArg).dict
  /\ refs = World(NoArg).refs
  /\ ctx = [c \in CtxIds |-> SharedData(TestConfig, TestCmpnt)]
  /\ phase = "build"
  /\ Idle
  /\ hooks = "any"

\* edges leave the Nodes and the nested Flow; the nested Flow gets a start
WireNest ==
  \/ \E src \in Nodes \cup {Inner}, a \in Labels, tgt \in Nodes :
       AddEdge(src, a, tgt)
  \/ \E o \in Nodes : SetStart(Inner, o)

NextNest ==
  \/ WireNest
  \/ Run(Outer)
  \/ \E t \in Threads : NodeStep(t)
  \/ \E t \in Threads : FlowStep(t)

SpecNest == InitNest /\ [][NextNest]_vars

(* ------------- two Flows over the same Nodes: SpecShare --------------- *)
\* the schedule passed when a type is constructed again
ReArg == [none |-> FALSE, w |-> Sched(1)]

\* ANode(), BNode(), Flow(start=ANode()), ParallelStep(), Flow(start=BNode())
InitShare ==
  /\ heap = [NewFlow(World(NoArg).heap) EXCEPT
               ![Len(World(NoArg).heap) - 1].start_node = World(NoArg).refs[1].ref,
               ![Len(World(NoArg).heap) + 1].start_node = World(NoArg).refs[2].ref]
  /\ instDict = World(NoArg).dict
  /\ refs = World(NoArg).refs
  /\ ctx = [c \in CtxIds |-> SharedData(TestConfig, TestCmpnt)]
  /\ phase = "build"
  /\ Idle
  /\ hooks = "any"

\* the caller reaches a Node only through a reference a construction gave
NextShare ==
  \/ \E i \in DOMAIN refs, a \in Labels, tgt \in Nodes :
       AddEdge(refs[i].ref, a, tgt)
  \/ \E i \in DOMAIN refs : Construct(refs[i].cls, ReArg)
  \/ \E fl \in Flows : Run(fl)
  \/ \E t \in Threads : NodeStep(t)
  \/ \E t \in Threads : FlowStep(t)

SpecShare == InitShare /\ [][NextShare]_vars

(* ------------- the test file's looping flow: SpecLoop ----------------- *)
\* test_flow_execution_with_loop: p = ParallelStep()[cnode, bnode];
\* anode >> p; p >> dnode; dnode - "again" >> anode; Flow(start=anode)
TestWorld ==
  LET a == NewNode(<<>>, InstDict0, "ANode", NoArg)
      b == NewNode(a.heap, a.dict, "BNode", NoArg)
      c == NewNode(b.heap, b.dict, "CNode", NoArg)
      d == NewNode(c.heap, c.dict, "DNode", NoArg)
      h1 == NewParallelStep(d.heap)
      p == Len(h1)
      h2 == [h1 EXCEPT ![p] = ParGetItem(@, <<c.ref, b.ref>>)]
      h3 == [h2 EXCEPT ![a.ref] = AddSuccessor(@, "default", p)]
      h4 == [h3 EXCEPT ![p] = AddSuccessor(@, "default", d.ref)]
      h5 == [h4 EXCEPT ![d.ref] = AddSuccessor(@, "again", a.ref)]
      h6 == NewFlow(h5)
  IN [heap |-> [h6 EXCEPT ![Len(h6)].start_node = a.ref],
      dict |-> d.dict,
      refs |-> <<[cls |-> "ANode", arg |-> NoArg, ref |-> a.ref],
                 [cls |-> "BNode", arg |-> NoArg, ref |-> b.ref],
                 [cls |-> "CNode", arg |-> NoArg, ref |-> c.ref],
                 [cls |-> "DNode", arg |-> NoArg, ref |-> d.ref]>>]

\* its SharedData: config {"arg1"}, cmpnt {"D": {"config": {"arg2", "data_d": 0}}}
TestLoopCmpnt ==
  [c \in {"M", "D"} |->
     IF c = "M" THEN MarkComp
     ELSE [k \in {"config"} |-> [arg2 |-> 2, data_d |-> 0]]]

InitLoop ==
  /\ heap = TestWorld.heap
  /\ instDict = TestWorld.dict
  /\ refs = TestWorld.refs
  /\ ctx = [c \in CtxIds |-> SharedData(TestConfig, TestLoopCmpnt)]
  /\ phase = "build"
  /\ Idle
  /\ hooks = "test"

NextLoop ==
  \/ \E fl \in Flows : Run(fl)
  \/ \E w \in Workers : WorkerReceive(w)
  \/ \E t \in Threads : NodeStep(t)
  \/ \E t \in Threads : FlowStep(t)
  \/ \E t \in Threads : ParStep(t)

SpecLoop == InitLoop /\ [][NextLoop]_vars

(* ===================================================================== *)
(* Properties                                                            *)
(* ===================================================================== *)
Last(q) == q[Len(q)]
IsExec(e) == e.ev = "exec" /\ e.hook
IsFail(e) == e.ev = "exec" /\ e.hook /\ e.v = Raised
IsSleep(e) == e.ev = "sleep"
\* the dispatch attempts, the failed ones and the sleeps of a Node run
Execs(tr) == SelectSeq(tr, IsExec)
Fails(tr) == SelectSeq(tr, IsFail)
Sleeps(tr) == LET q == SelectSeq(tr, IsSleep) IN [i \in DOMAIN q |-> q[i].w]
Count(tr, ev) == Cardinality({i \in DOMAIN tr : tr[i].ev = ev})
\* the Node a trace belongs to and its stored schedule
TraceNode(tr) == tr[1].w
Schedule(tr) == heap[TraceNode(tr)].retry_waits
\* the argument of the first construction that returned o
Supplied(o) ==
  refs[CHOOSE i \in DOMAIN refs :
         refs[i].ref = o /\ \A j \in 1..(i - 1) : refs[j].ref # o].arg
Succeeded(tr) == \E i \in DOMAIN tr : IsExec(tr[i]) /\ tr[i].v = "ok"

\* C1: a Node whose dispatch fails f times and then succeeds, with f at most
\* the length k of its retry schedule, does not fail at execute: dispatch
\* was invoked exactly f+1 times, the sleeps are the first f waits of the
\* schedule in order, and the run returns what postlude returns; execute
\* only gives up after more than k failures.
C1_RetryThenSuccess ==
  \A t \in Threads :
    LET tr == trace[t] IN
      /\ (tr # <<>> /\ Succeeded(tr)) =>
           LET f == Len(Fails(tr)) IN
             /\ f <= Len(Schedule(tr))
             /\ Len(Execs(tr)) = f + 1
             /\ Sleeps(tr) = SubSeq(Schedule(tr), 1, f)
             /\ Last(tr).ev \in {"exec", "post"}
             /\ (Last(tr).ev = "exec") => (Last(tr).v = "ok" /\ fin[t].st = "none")
             /\ (Last(tr).ev = "post" /\ Last(tr).v # Raised /\ stack[t] = <<>>)
                  => fin[t] = [st |-> "returned", val |-> Last(tr).v]
      /\ (tr # <<>> /\ IsFail(Last(tr)) /\ fin[t].st = "raised")
           => Len(Fails(tr)) > Len(Schedule(tr))

\* C1 witness: two failures, then success, with the schedule <<2, 1>>
C1_Witness ==
  LET tr == trace[Main] IN
    /\ tr # <<>>
    /\ Len(Fails(tr)) = 2
    /\ Sleeps(tr) = <<2, 1>>
    /\ Len(Execs(tr)) = 3
    /\ fin[Main].st = "returned"

\* C2: a Node constructed with a schedule of length k (k = 0 included) whose
\* dispatch always fails raises after exactly k+1 invocations of dispatch.
C2_ExhaustedAfterKPlus1 ==
  \A t \in Threads :
    LET tr == trace[t] IN
      (tr # <<>> /\ IsFail(Last(tr)) /\ fin[t].st = "raised"
         /\ ~Supplied(TraceNode(tr)).none)
        => Len(Execs(tr)) = Len(Supplied(TraceNode(tr)).w) + 1

\* the stage runs of Nodes, in completion order
IsNodeRun(e) == heap[e.o].kind = "node"
NodeRuns == SelectSeq(path, IsNodeRun)
TheFlow == CHOOSE o \in DOMAIN heap : heap[o].kind = "flow"
\* nxt is registered in o's own successor map under the outcome, an
\* empty or null outcome standing for the default label
Registered(o, out, nxt) ==
  LET key == IF out = NoneV \/ out = "" THEN "default" ELSE out IN
    /\ key \in DOMAIN heap[o].successors
    /\ heap[o].successors[key] = nxt
RunningNodes(t) ==
  {stack[t][i].self : i \in {j \in DOMAIN stack[t] : stack[t][j].kind = "node"}}

\* C3: the first stage a Flow runs is its start stage, and every later stage
\* is the one registered, in the successor map of the stage that ran just
\* before it, under that stage's outcome (under "default" when the outcome
\* is empty or null).
C3_FollowsOwnEdges ==
  LET r == NodeRuns IN
    /\ \A i \in 1..(Len(r) - 1) : Registered(r[i].o, r[i].out, r[i + 1].o)
    /\ r # <<>> => r[1].o = heap[TheFlow].start_node
    /\ \A o \in RunningNodes(Main) :
         IF r = <<>> THEN o = heap[TheFlow].start_node
         ELSE Registered(Last(r).o, Last(r).out, o)

\* C3 witness: the labelled edge of the first stage, then the default edge
\* of a different stage after a null outcome
C3_Witness ==
  LET r == NodeRuns IN
    /\ Len(r) = 3
    /\ r[1].out = "x"
    /\ r[2].o # r[1].o
    /\ r[2].out = NoneV
    /\ r[3].o = r[1].o
    /\ "default" \notin DOMAIN heap[r[1].o].successors

\* C4: when the stage just run has neither an edge for its outcome nor a
\* default edge, the Flow runs nothing more and returns that outcome
\* unchanged; whatever a Flow returns is the outcome of the last stage run.
C4_UnmatchedOutcomeReturned ==
  LET r == NodeRuns IN
    /\ (r # <<>> /\ Last(path) = Last(r) /\ Last(r).out # Raised
          /\ Last(r).out \notin DOMAIN heap[Last(r).o].successors
          /\ "default" \notin DOMAIN heap[Last(r).o].successors)
         => /\ Len(stack[Main]) = 1
            /\ stack[Main][1].kind = "flow"
            /\ stack[Main][1].pc \in {"ret", "loop"}
            /\ stack[Main][1].res = Last(r).out
            /\ stack[Main][1].pc = "loop" => stack[Main][1].curr = Null
    /\ (fin[Main].st = "returned" /\ r # <<>>)
         => /\ fin[Main].val = Last(r).out
            /\ Last(path).o = TheFlow
            /\ Last(path).out = Last(r).out

\* C4 witness: the second stage returned null, has no edge at all, and the
\* Flow returned null
C4_Witness ==
  LET r == NodeRuns IN
    /\ Len(r) = 2
    /\ r[2].out = NoneV
    /\ heap[r[2].o].successors = EmptyDict
    /\ fin[Main] = [st |-> "returned", val |-> NoneV]

\* C5: every construction of a Node type returns the same instance, whose
\* retry schedule is the one supplied at the first construction.
C5_SingletonFirstSchedule ==
  \A i \in DOMAIN refs :
    /\ \A j \in DOMAIN refs :
         refs[i].cls = refs[j].cls => refs[i].ref = refs[j].ref
    /\ ~Supplied(refs[i].ref).none
         => heap[refs[i].ref].retry_waits = Supplied(refs[i].ref).w

\* C6: a ParallelStep that returns has run every child to completion, each
\* on its own worker, and returns the outcome of the first child in the
\* configured order.
C6_FirstChildOutcome ==
  \A i \in DOMAIN path :
    (heap[path[i].o].kind = "par" /\ path[i].out # Raised) =>
      LET ts == heap[path[i].o].tasks IN
        /\ Len(ts) >= 1
        /\ \A j \in 1..Len(ts) :
             /\ fin[j].st = "returned"
             /\ \E m \in 1..(i - 1) :
                  /\ path[m].t = j
                  /\ path[m].o = ts[j]
                  /\ path[m].out = fin[j].val
        /\ path[i].out = fin[1].val

\* C6 witness: the second child finished before the first, with another
\* outcome, and the step returned the first child's outcome
C6_Witness ==
  /\ Len(path) = 3
  /\ path[1].t = 2
  /\ path[2].t = 1
  /\ path[1].out # path[2].out
  /\ path[1].out # Raised
  /\ heap[path[3].o].kind = "par"
  /\ path[3].out = path[2].out
  /\ fin[Main] = [st |-> "returned", val |-> path[2].out]

\* the component configuration MergeCfg has to overlay for a trace
CompConfig(tr) ==
  LET sh == ctx[tr[1].sh]
      comp == COMP(tr[1].v)
  IN IF comp # NoneV /\ comp \in DOMAIN sh.cmpnt
        /\ "config" \in DOMAIN sh.cmpnt[comp]
     THEN sh.cmpnt[comp]["config"]
     ELSE EmptyDict
IsPhase(e) == e.ev \in {"prep", "exec", "post"}

\* C7: the configuration a Node computes and hands to its hooks has the
\* component value for every key of the component config and the global
\* value for every other key; with an empty or absent component config it
\* is the global config.
C7_EffectiveConfig ==
  \A t \in Threads :
    LET tr == trace[t] IN
      \A i \in DOMAIN tr :
        IsPhase(tr[i]) =>
          LET g == ctx[tr[1].sh].config
              c == CompConfig(tr)
              cfg == tr[i].cfg
          IN /\ DOMAIN cfg = (DOMAIN g) \cup (DOMAIN c)
             /\ \A k \in DOMAIN c : cfg[k] = c[k]
             /\ \A k \in (DOMAIN g) \ (DOMAIN c) : cfg[k] = g[k]
             /\ (DOMAIN c = {}) => cfg = g

\* C7 witness: postlude was handed a configuration in which the component
\* overrides one global key and another global key is kept
C7_Witness ==
  LET tr == trace[Main] IN
    /\ tr # <<>>
    /\ Last(tr).ev = "post"
    /\ Last(tr).hook
    /\ DOMAIN CompConfig(tr) = {"arg1"}
    /\ DOMAIN ctx[tr[1].sh].config = {"arg1", "arg2"}
    /\ CompConfig(tr)["arg1"] # ctx[tr[1].sh].config["arg1"]
    /\ Last(tr).cfg["arg1"] = CompConfig(tr)["arg1"]

\* a run that went through: its trace ends with a postprocess that returned
Completed(tr) == tr # <<>> /\ Last(tr).ev = "post" /\ Last(tr).v # Raised
\* run, prepare once, the execute attempts (each failure followed by its
\* sleep), the successful attempt last, postprocess once
PhaseOrder(tr) ==
  /\ Len(tr) >= 4
  /\ tr[1].ev = "run"
  /\ tr[2].ev = "prep"
  /\ Count(tr, "prep") = 1
  /\ Count(tr, "post") = 1
  /\ \A i \in 3..(Len(tr) - 1) : tr[i].ev \in {"exec", "sleep"}
  /\ tr[Len(tr) - 1].ev = "exec"
  /\ tr[Len(tr) - 1].v # Raised
  /\ \A i \in 3..(Len(tr) - 2) : tr[i].ev = "exec" => tr[i].v = Raised

\* C8 as stated: the three phases run in order, prepare and postprocess
\* once, and prepare, every execute attempt and postprocess are all handed
\* the same context reference.
C8_AllPhasesSameContext ==
  \A t \in Threads :
    LET tr == trace[t] IN
      Completed(tr) =>
        /\ PhaseOrder(tr)
        /\ \A i \in DOMAIN tr : IsPhase(tr[i]) => tr[i].sh = tr[1].sh

\* C8 amended: the three phases run in order, prepare once before the first
\* execute attempt and postprocess once after the last; prepare and
\* postprocess are handed the context reference of the run, so postlude
\* reads what prelude wrote, while execute is handed no context, only what
\* prepare returned.
C8_PhaseOrderAndContext ==
  \A t \in Threads :
    LET tr == trace[t] IN
      Completed(tr) =>
        /\ PhaseOrder(tr)
        /\ tr[2].sh = tr[1].sh
        /\ Last(tr).sh = tr[1].sh
        /\ (tr[2].hook /\ Last(tr).hook) => Last(tr).w = tr[2].w
        /\ \A i \in DOMAIN tr :
             tr[i].ev = "exec" => (tr[i].sh = Null /\ tr[i].w = tr[2].w)

\* C8 witness: a run with a retry in which postlude read the count that
\* prelude wrote
C8_Witness ==
  LET tr == trace[Main] IN
    /\ Completed(tr)
    /\ Len(tr) = 6
    /\ tr[2].hook
    /\ tr[2].w = 1
    /\ Last(tr).w = 1
    /\ ctx[CallerCtx].cmpnt["M"].n = 1

\* nothing runs after a stage run that raised
RaisedIsLast == \A i \in 1..(Len(path) - 1) : path[i].out # Raised

\* C9: when a Node in a Flow still fails after its last retry, the Flow's
\* run raises: the Node's postprocess is not invoked, the Flow is unwound
\* without a successor lookup, no further stage runs and nothing is
\* returned.
C9_ExhaustionAbortsFlow ==
  /\ RaisedIsLast
  /\ LET tr == trace[Main] IN
       (tr # <<>> /\ IsFail(Last(tr))
          /\ Len(Fails(tr)) = Len(Schedule(tr)) + 1)
         => /\ fin[Main] = [st |-> "raised", val |-> Raised]
            /\ stack[Main] = <<>>
            /\ Count(tr, "post") = 0
            /\ Last(path) = [t |-> Main, o |-> TraceNode(tr), out |-> Raised]

\* C9 witness: the second stage of a Flow used up a schedule of two waits
C9_Witness ==
  LET tr == trace[Main] IN
    /\ Len(path) = 2
    /\ path[1].out # Raised
    /\ path[2].out = Raised
    /\ tr # <<>>
    /\ Len(Fails(tr)) = 3
    /\ Sleeps(tr) = <<2, 1>>
    /\ fin[Main].st = "raised"

\* C10: a prelude or postlude that raises is invoked once in that run and
\* is the last thing the run does (no dispatch after a failed prelude),
\* whatever the retry schedule, and the owning Flow is unwound with the
\* error without running another stage.
C10_HookErrorNotRetried ==
  /\ RaisedIsLast
  /\ LET tr == trace[Main] IN
       \A i \in DOMAIN tr :
         (tr[i].ev \in {"prep", "post"} /\ tr[i].v = Raised)
           => /\ i = Len(tr)
              /\ Count(tr, tr[i].ev) = 1
              /\ (tr[i].ev = "prep") => Count(tr, "exec") = 0
              /\ fin[Main] = [st |-> "raised", val |-> Raised]
              /\ stack[Main] = <<>>
              /\ Last(path) = [t |-> Main, o |-> TraceNode(tr), out |-> Raised]

\* C10 witness: after a stage that went through, the prelude of a Node with
\* a schedule of two waits raised
C10_Witness ==
  LET tr == trace[Main] IN
    /\ Len(path) = 2
    /\ path[1].out # Raised
    /\ tr # <<>>
    /\ Last(tr).ev = "prep"
    /\ Last(tr).v = Raised
    /\ Len(Schedule(tr)) = 2
    /\ fin[Main].st = "raised"

\* the workers a ParallelStep run has started; the i-th child of the first
\* run of a step is handed to worker i
Children == {w \in Workers : slot[w].st # "free"}
IsPar(e) == heap[e.o].kind = "par"
IsHung(w) == stack[w] # <<>> /\ Top(w).pc = "hung"

ParFrames == {i \in DOMAIN stack[Main] : stack[Main][i].kind = "par"}
ParRuns == SelectSeq(path, IsPar)
\* the workers of activation f, one per child and in the children's order,
\* have each run their child to its return and are stopped
AllJoinedAndStopped(f) ==
  LET ts == heap[f.self].tasks IN
    /\ Len(f.slots) = Len(ts)
    /\ Len(f.results) = Len(ts)
    /\ \A i, j \in DOMAIN f.slots : f.slots[i] = f.slots[j] => i = j
    /\ \A i \in DOMAIN f.slots :
         LET w == f.slots[i] IN
           /\ slot[w] = [st |-> "stopped", shared |-> f.shared, msg |-> Null,
                          task |-> ts[i]]
           /\ fin[w].st = "returned"
           /\ f.results[i] = fin[w].val
           /\ stack[w] = <<>>
    /\ \A w \in Workers :
         (\A i \in DOMAIN f.slots : f.slots[i] # w) => slot[w].st # "started"

\* C12: a ParallelStep run that is about to return an outcome has started
\* one worker per child, handed child i to worker i, got every child's
\* result and stopped every worker; on every pass of a looping Flow, and
\* between the runs of the step no worker is alive.
C12_WorkersStartedAndStopped ==
  /\ \A i \in ParFrames :
       stack[Main][i].pc = "stopped" => AllJoinedAndStopped(stack[Main][i])
  /\ (ParFrames = {} /\ fin[Main].st # "raised") =>
       \A w \in Workers : slot[w].st # "started" /\ stack[w] = <<>>

\* C12 witness: the third run of the step in the looping flow has stopped
\* its workers and is about to return
C12_Witness ==
  /\ Len(ParRuns) = 2
  /\ At(Main, "par", "stopped")
  /\ Len(Top(Main).slots) = 2

IsD(e) == heap[e.o].cls = "DNode"
DRuns == SelectSeq(path, IsD)
\* C14: in the test file's flow A -> [C, B] -> D with D -"again"-> A, the
\* k-th run of D returns "again" while the counter has not passed the
\* threshold and "finish" once it has; the flow returns only after that,
\* with "finish", and D has then run exactly 3 times.
C14_LoopUntilThreshold ==
  /\ \A k \in DOMAIN DRuns :
       DRuns[k].out = IF k <= DThreshold + 1 THEN "again" ELSE "finish"
  /\ fin[Main].st # "raised"
  /\ fin[Main].st = "returned" =>
       /\ fin[Main].val = "finish"
       /\ Len(DRuns) = 3
       /\ Last(NodeRuns).o = Last(DRuns).o
       /\ ctx[CallerCtx].cmpnt["D"]["data_d"] = DThreshold + 1

\* C14 witness: the flow has returned "finish" after three passes
C14_Witness ==
  /\ fin[Main] = [st |-> "returned", val |-> "finish"]
  /\ Len(DRuns) = 3
  /\ Len(ParRuns) = 3
  /\ steps = 12

\* the outcome of stage run e has an edge in the successor map of its stage
Matched(e) ==
  /\ e.out # Raised
  /\ ActionKey(e.out) \in DOMAIN heap[e.o].successors

\* C15: a Flow that has run a stage stops only when the stage just run
\* raised or yielded an outcome without a matching edge; as long as the
\* outcomes find an edge the traversal goes on, stages that ran before
\* included: there is no cycle detection and no iteration bound.
C15_StopsOnlyOnUnmatchedOutcome ==
  LET r == NodeRuns IN
    /\ (r # <<>> /\ phase = "run" /\ stack[Main] = <<>>) =>
         /\ ~Matched(Last(r))
         /\ (fin[Main].st = "raised") <=> (Last(r).out = Raised)
    /\ (r # <<>> /\ At(Main, "flow", "loop")) =>
         (Top(Main).curr = Null) <=> ~Matched(Last(r))
    /\ (r # <<>> /\ Matched(Last(r))) => fin[Main].st = "none"
    /\ (r = <<>> /\ fin[Main].st # "none") => heap[TheFlow].start_node = Null

\* C15 witness: on the cycle A -> B -> A every outcome found its edge; after
\* three stage runs the traversal is about to run B again
C15_Witness ==
  LET r == NodeRuns IN
    /\ Len(r) = 3
    /\ r[1].o = r[3].o
    /\ r[2].o # r[1].o
    /\ \A i \in DOMAIN r : Matched(r[i])
    /\ At(Main, "flow", "loop")
    /\ Top(Main).curr = r[2].o

\* the preludes that have returned so far: one per completed run of a Node
\* with a prelude, and the one of the current run
PreludesDone ==
  LET tr == trace[Main]
      before == {i \in 1..(Len(path) - 1) :
                   /\ heap[path[i].o].kind = "node"
                   /\ HasHook(heap[path[i].o].cls, "prelude")}
      now == {i \in DOMAIN tr : tr[i].ev = "prep" /\ tr[i].hook /\ tr[i].v = "ok"}
  IN Cardinality(before) + Cardinality(now)

\* C16: when a Flow's run has failed, the Shared Context holds every
\* mutation made before the failure: the count written by each prelude that
\* returned, the failing Node's included, and the marker of the failing
\* Node; the untouched context is as it was.
C16_NoRollback ==
  fin[Main].st = "raised" =>
    LET tr == trace[Main] IN
      /\ tr # <<>>
      /\ ctx[CallerCtx].state = tr[1].v
      /\ ctx[CallerCtx].cmpnt["M"].n = PreludesDone
      /\ ctx[CallerCtx].config = TestConfig
      /\ ctx[2] = SharedData(TestConfig, TestCmpnt)

\* C16 witness: the second stage failed at execute after its retry; both
\* preludes had written to the context
C16_Witness ==
  /\ fin[Main].st = "raised"
  /\ Len(path) = 2
  /\ IsFail(Last(trace[Main]))
  /\ Len(Fails(trace[Main])) >= 2
  /\ ctx[CallerCtx].cmpnt["M"].n = 2
  /\ ctx[CallerCtx].state = "ANode"

\* the Node activations of a thread
NodeFrames(t) == {i \in DOMAIN stack[t] : stack[t][i].kind = "node"}
\* the completed runs of Nodes that have a prelude
PreludeRuns ==
  {i \in DOMAIN path : /\ heap[path[i].o].kind = "node"
                        /\ HasHook(heap[path[i].o].cls, "prelude")}

\* C17: in a Flow without a ParallelStep only the calling thread runs, with at
\* most one stage active; every earlier stage has completed when a stage
\* prepares, and its prelude and postlude find in the Shared Context what
\* the preludes of all the earlier stages wrote.
C17_OneStageAtATime ==
  /\ \A w \in Workers : stack[w] = <<>> /\ trace[w] = <<>> /\ slot[w] = NoSlot
  /\ Cardinality(NodeFrames(Main)) <= 1
  /\ (NodeFrames(Main) # {} /\ Top(Main).pc # "stamp") =>
       LET tr == trace[Main] IN
         \A i \in DOMAIN tr :
           (tr[i].ev \in {"prep", "post"} /\ tr[i].hook /\ tr[i].v # Raised)
             => tr[i].w = Cardinality(PreludeRuns) + 1

\* C17 witness: the second stage has prepared and read the count the first
\* stage left
C17_Witness ==
  /\ Len(path) = 1
  /\ PreludeRuns = {1}
  /\ At(Main, "node", "exec")
  /\ trace[Main][2].hook
  /\ trace[Main][2].w = 2

\* C18: while a nested Flow runs, its parent waits in one step; the parent
\* resumes with the outcome of the last inner stage, which found no edge in
\* that stage's map, and picks its next stage by that outcome in the nested
\* Flow's own successor map.
C18_NestedFlowIsOneStep ==
  LET st == stack[Main]
      r == NodeRuns
  IN
    /\ \A i \in DOMAIN st :
         (i > 1 /\ st[i].kind = "flow") =>
           /\ st[i].self = Inner
           /\ st[i - 1] = [st[1] EXCEPT !.pc = "wait"]
           /\ st[1].self = Outer /\ st[1].curr = Inner
    /\ (Len(st) = 1 /\ st[1].pc = "ret" /\ st[1].curr = Inner /\ r # <<>>) =>
         /\ Last(path) = [t |-> Main, o |-> Inner, out |-> Last(r).out]
         /\ st[1].res = Last(r).out
         /\ ~Matched(Last(r))
    /\ \A i \in DOMAIN path :
         (path[i].o = Inner /\ i < Len(path)) =>
           IF ActionKey(path[i].out) \in DOMAIN heap[Inner].successors
           THEN path[i + 1].o = heap[Inner].successors[ActionKey(path[i].out)]
           ELSE path[i + 1] = [t |-> Main, o |-> Outer, out |-> path[i].out]
    /\ (Len(st) = 1 /\ st[1].pc = "loop" /\ path # <<>> /\ Last(path).o = Inner) =>
         st[1].curr = get_next_node(heap[Inner].successors, Last(path).out)

\* C18 witness: the nested Flow ran two stages and returned "x"; its last
\* stage has no edge at all, the nested Flow has an edge under "x", and the
\* parent has run the stage registered there
C18_Witness ==
  /\ Len(path) = 4
  /\ path[3] = [t |-> Main, o |-> Inner, out |-> "x"]
  /\ path[2].out = "x"
  /\ heap[path[2].o].successors = EmptyDict
  /\ path[1].o # path[2].o
  /\ "x" \in DOMAIN heap[Inner].successors
  /\ path[4].o = heap[Inner].successors["x"]

\* C19: from the moment a Node's run has stamped the context, before any
\* hook of that run is called, and until the next Node's run stamps it, the
\* marker is the type name of that Node; before any Node ran it is unset,
\* and after the Flow's run it names the last Node that ran.
C19_MarkerNamesLastBegun ==
  LET tr == trace[Main]
      r == NodeRuns
      marker == ctx[CallerCtx].state
  IN
    IF NodeFrames(Main) # {} /\ Top(Main).pc # "stamp"
    THEN /\ marker = heap[Top(Main).self].cls
         /\ tr[1].ev = "run" /\ tr[1].v = marker
         /\ \A i \in DOMAIN tr : i > 1 => tr[i].ev # "run"
    ELSE marker = IF r = <<>> THEN NoneV ELSE heap[Last(r).o].cls

\* C19 witness: the Flow ran a Node of one type, then a Node of another, and
\* has returned
C19_Witness ==
  /\ fin[Main].st = "returned"
  /\ Len(NodeRuns) = 2
  /\ heap[NodeRuns[1].o].cls = "ANode"
  /\ heap[NodeRuns[2].o].cls = "BNode"
  /\ ctx[CallerCtx].state = "BNode"

\* the events of one kind in the trace of the caller's thread
EvCount(ev) == Cardinality({i \in DOMAIN trace[Main] : trace[Main][i].ev = ev})

\* C20: run called on a Node that has successors runs that Node alone, its
\* prepare and postprocess once each, and ends with its outcome; no other
\* stage is activated, before or after, and from the call on the successor
\* maps stay as they were.
C20_RunIgnoresSuccessors ==
  /\ [](/\ Len(stack[Main]) <= 1
        /\ NodeFrames(Main) = DOMAIN stack[Main]
        /\ \A w \in Workers : stack[w] = <<>> /\ slot[w] = NoSlot
        /\ steps <= 1
        /\ Len(path) <= 1
        /\ EvCount("run") <= 1 /\ EvCount("prep") <= 1 /\ EvCount("post") <= 1
        /\ (fin[Main].st = "returned") =>
             /\ stack[Main] = <<>>
             /\ Len(path) = 1
             /\ path[1].t = Main /\ heap[path[1].o].kind = "node"
             /\ fin[Main].val = path[1].out
             /\ trace[Main][1].w = path[1].o
             /\ EvCount("run") = 1 /\ EvCount("prep") = 1 /\ EvCount("post") = 1)
  /\ [][phase' = "run" => heap' = heap]_vars

\* C20 witness: the Node that was run returned an outcome for which it has
\* an edge to another Node, and nothing else ran
C20_Witness ==
  /\ fin[Main].st = "returned"
  /\ Len(path) = 1
  /\ path[1].out # NoneV
  /\ ActionKey(path[1].out) \in DOMAIN heap[path[1].o].successors
  /\ heap[path[1].o].successors[ActionKey(path[1].out)] # path[1].o

\* the label an expression registers under
ExprKey(e) == IF e.label = NoneV THEN "default" ELSE e.label

\* C21: every registration, by next or by an operator form, leaves
\* successors[label] of the source equal to the target, with "default" as
\* the label when none is written, also when the label was taken (the
\* warning is then logged and the call still goes through); every other
\* entry of every map is as before; the expression evaluates to the target,
\* and a chained expression registers on the target of the one before.
C21_RegistersAndChains ==
  /\ [](expr.form # "none" =>
         /\ expr.val = expr.tgt
         /\ ExprKey(expr) \in DOMAIN heap[expr.src].successors
         /\ heap[expr.src].successors[ExprKey(expr)] = expr.tgt
         /\ expr.form = "rshift" => ExprKey(expr) = "default"
         /\ expr.form = "subrshift" => ExprKey(expr) = expr.label)
  /\ [][(expr' # expr \/ heap' # heap) =>
         /\ \A o \in DOMAIN heap :
              /\ DOMAIN heap'[o].successors =
                   (DOMAIN heap[o].successors)
                     \cup (IF o = expr'.src THEN {ExprKey(expr')} ELSE {})
              /\ \A a \in DOMAIN heap[o].successors :
                   (o # expr'.src \/ a # ExprKey(expr'))
                     => heap'[o].successors[a] = heap[o].successors[a]
         /\ expr'.warn <=> ExprKey(expr') \in DOMAIN heap[expr'.src].successors
         /\ expr'.chained => expr'.src = expr.tgt]_vars

\* C21 witness: a chained `>> c` has replaced the default edge of a stage
\* that also has an "x" edge, which is still there
C21_Witness ==
  /\ expr.form = "rshift"
  /\ expr.chained
  /\ expr.warn
  /\ DOMAIN heap[expr.src].successors = {"default", "x"}
  /\ heap[expr.src].successors["x"] # expr.tgt

\* the completed runs of the Nodes of one type
RunsOf(cls) ==
  {i \in DOMAIN path : heap[path[i].o].kind = "node" /\ heap[path[i].o].cls = cls}
Counter(k) == ctx[CallerCtx].cmpnt[k].n

\* C22: the children of a ParallelStep all work on the caller's context.
\* When each child counts under its own component, a counter is exactly the
\* number of completed runs of its type as long as no two children share the
\* type, whatever the sibling does meanwhile.  When all count under one key,
\* the counter is at least 1 once a child has completed and never more than
\* the number of completed runs: it can fall short of it.
C22_SharedContextNoLocking ==
  /\ \A w \in Workers :
       /\ slot[w].st # "free" => slot[w].shared = CallerCtx
       /\ \A i \in DOMAIN stack[w] : stack[w][i].shared = CallerCtx
  /\ ctx[2] = SharedData(TestConfig, RaceCmpnt)
  /\ hooks = "own" =>
       /\ Counter("M") = 0
       /\ \A c \in {"ANode", "BNode"} :
            Cardinality(RunsOf(c)) <= 1 => Counter(c) = Cardinality(RunsOf(c))
  /\ hooks = "same" =>
       /\ Counter("ANode") = 0 /\ Counter("BNode") = 0
       /\ Counter("M") <= Cardinality(RunsOf("ANode") \cup RunsOf("BNode"))
       /\ RunsOf("ANode") \cup RunsOf("BNode") # {} => Counter("M") >= 1

\* C22 witness: two siblings of different types have both incremented the
\* one counter, the step has returned, and the counter is 1
C22_Witness ==
  /\ hooks = "same"
  /\ fin[Main].st = "returned"
  /\ Cardinality(RunsOf("ANode")) = 1
  /\ Cardinality(RunsOf("BNode")) = 1
  /\ Counter("M") = 1

\* C23: the outcome of a Node run is the value its postlude returned, and
\* the null outcome when the type has no postlude; the value of dispatch is
\* never the outcome.  After a null outcome the Flow goes on with the stage
\* under "default", and stops when there is none.
C23_OutcomeIsPostludeValue ==
  LET tr == trace[Main]
      r == NodeRuns
  IN
    /\ \A i \in DOMAIN path : path[i].out \in Outcomes \cup {Raised}
    /\ (tr # <<>> /\ Last(tr).ev = "post" /\ Last(tr).v # Raised) =>
         /\ r # <<>>
         /\ Last(r).o = TraceNode(tr)
         /\ Last(r).out = Last(tr).v
         /\ Last(tr).hook = HasHook(heap[TraceNode(tr)].cls, "postlude")
         /\ ~Last(tr).hook => Last(r).out = NoneV
    /\ \A i \in DOMAIN tr :
         (tr[i].ev = "exec" /\ tr[i].v # Raised) =>
           tr[i].v = IF tr[i].hook THEN "ok" ELSE NoneV
    /\ \A i \in 1..(Len(r) - 1) :
         r[i].out = NoneV =>
           /\ "default" \in DOMAIN heap[r[i].o].successors
           /\ r[i + 1].o = heap[r[i].o].successors["default"]
    /\ (r # <<>> /\ Last(r).out = NoneV /\ At(Main, "flow", "loop")) =>
         Top(Main).curr = DictGet(heap[Last(r).o].successors, "default", Null)

\* C23 witness: a Node without hooks gave the null outcome and the Flow
\* followed its default edge to a Node whose dispatch returned a value and
\* whose postlude returned None: the Flow returned None
C23_Witness ==
  LET tr == trace[Main]
      r == NodeRuns
  IN
    /\ Len(r) = 2
    /\ heap[r[1].o].cls = "Node"
    /\ r[1].out = NoneV
    /\ heap[r[2].o].cls = "ANode"
    /\ \E i \in DOMAIN tr : tr[i].ev = "exec" /\ tr[i].v = "ok"
    /\ Last(tr).ev = "post" /\ Last(tr).hook /\ Last(tr).v = NoneV
    /\ fin[Main] = [st |-> "returned", val |-> NoneV]

\* a completed run whose outcome is a label the stage has no edge for
Unmatched(e) ==
  /\ e.out \notin {NoneV, "", Raised}
  /\ e.out \notin DOMAIN heap[e.o].successors

\* C24: a stage run that returned a non-empty outcome without an edge of
\* its own is the last stage the Flow runs, with or without a default edge
\* on that stage, and the Flow returns that outcome.
C24_NoDefaultFallback ==
  LET r == NodeRuns IN
    /\ \A i \in 1..(Len(r) - 1) : ~Unmatched(r[i])
    /\ (r # <<>> /\ Unmatched(Last(r))) =>
         /\ stack[Main] # <<>> =>
              /\ Len(stack[Main]) = 1
              /\ \/ At(Main, "flow", "ret") /\ Top(Main).res = Last(r).out
                 \/ At(Main, "flow", "loop") /\ Top(Main).curr = Null
                      /\ Top(Main).res = Last(r).out
         /\ stack[Main] = <<>> =>
              /\ fin[Main] = [st |-> "returned", val |-> Last(r).out]
              /\ Last(path) = [t |-> Main, o |-> TheFlow, out |-> Last(r).out]

\* C24 witness: the second stage returned "x", has a default edge and no
\* "x" edge, and the Flow has returned "x"
C24_Witness ==
  LET r == NodeRuns IN
    /\ Len(r) = 2
    /\ r[2].out = "x"
    /\ DOMAIN heap[r[2].o].successors = {"default"}
    /\ fin[Main] = [st |-> "returned", val |-> "x"]

\* C25: after p[x] the child list of p is the one stage x, whatever its
\* kind, or the stages of the list x in the given order, whatever the list
\* was before, and the expression has not failed.
C25_ConfigureNormalizes ==
  expr.form = "getitem" =>
    /\ ~expr.raised
    /\ expr.val = expr.src
    /\ heap[expr.src].tasks =
         IF expr.tgt # Null THEN <<expr.tgt>> ELSE expr.arg

\* C26: once a ParallelStep's run has raised a child's error to its caller,
\* every child's run is over and every worker of the run is stopped.
C26_ErrorAfterJoinAndStop ==
  (fin[Main].st = "raised" /\ \E w \in Children : fin[w].st = "raised") =>
    \A w \in Children :
      /\ fin[w].st # "none"
      /\ stack[w] = <<>>
      /\ slot[w].st = "stopped"

\* C27: no step of a run changes a Node's stored retry schedule, and every
\* run of a Node, a later pass of a loop included, enters execute with the
\* whole stored schedule, which is the one the Node got at construction.
C27_SchedulePerRunCopy ==
  /\ [](\A t \in Threads :
         /\ \A i \in DOMAIN stack[t] :
              (stack[t][i].kind = "node" /\ stack[t][i].pc = "exec"
                 /\ Count(trace[t], "exec") = 0)
                => stack[t][i].waits = heap[stack[t][i].self].retry_waits
         /\ (trace[t] # <<>> /\ Count(trace[t], "exec") > 0) =>
              Len(Fails(trace[t])) <= Len(Schedule(trace[t])) + 1)
  /\ [](\A o \in Nodes :
         heap[o].retry_waits = InitRetryWaits(Supplied(o)))
  /\ [][\A o \in DOMAIN heap : heap'[o].retry_waits = heap[o].retry_waits]_vars

\* C27 witness: a Node with a schedule of two waits runs once more in a
\* loop, after a run of it that completed, and has slept both waits
C27_Witness ==
  LET r == NodeRuns IN
    /\ Len(r) >= 1
    /\ At(Main, "node", "exec")
    /\ Top(Main).self = r[1].o
    /\ heap[r[1].o].retry_waits = <<2, 1>>
    /\ Sleeps(trace[Main]) = <<2, 1>>
    /\ r[1].out # Raised

\* C28: every construction of a type gives the one instance, and a
\* construction changes no successor map; whichever Flow runs, each stage
\* after the first is the one registered in that single map of the stage
\* before it.
C28_OneSuccessorMapPerType ==
  /\ [](\A i, j \in DOMAIN refs :
         refs[i].cls = refs[j].cls => refs[i].ref = refs[j].ref)
  /\ [](LET r == NodeRuns IN
         /\ \A i \in 1..(Len(r) - 1) : Registered(r[i].o, r[i].out, r[i + 1].o)
         /\ (r # <<>> /\ stack[Main] # <<>>) =>
              r[1].o = heap[stack[Main][1].self].start_node)
  /\ [][refs' # refs =>
         /\ DOMAIN heap' = DOMAIN heap
         /\ \A o \in DOMAIN heap : heap'[o].successors = heap[o].successors]_vars

\* C28 witness: ANode was constructed a second time, and the Flow that
\* starts at BNode has followed BNode's edge to ANode and ANode's edge back
C28_Witness ==
  LET r == NodeRuns IN
    /\ Len(refs) = 3
    /\ refs[3].cls = "ANode"
    /\ Len(r) = 3
    /\ heap[r[1].o].cls = "BNode"
    /\ heap[r[2].o].cls = "ANode"
    /\ r[3].o = r[1].o
    /\ stack[Main] # <<>>
    /\ stack[Main][1].self = Inner

\* C29: constructions of different Node types never give the same
\* instance, in whatever order the types are constructed and also when one
\* is Node itself and the other a subtype; the instance a construction
\* gives is of exactly the type constructed.
C29_DistinctTypesDistinctInstances ==
  \A i \in DOMAIN refs :
    /\ refs[i].ref \in DOMAIN heap
    /\ heap[refs[i].ref].cls = refs[i].cls
    /\ \A j \in DOMAIN refs :
         refs[i].cls # refs[j].cls => refs[i].ref # refs[j].ref

\* C29 witness: Node, then its subtype ANode, then Node again
C29_Witness ==
  /\ Len(refs) = 3
  /\ refs[1].cls = "Node"
  /\ refs[2].cls = "ANode"
  /\ refs[3].cls = "Node"
  /\ refs[3].ref = refs[1].ref
  /\ refs[2].ref # refs[1].ref

\* C30: the run of a ParallelStep whose child list is empty, because it was
\* never configured or was configured with an empty list, starts no worker,
\* returns no outcome, is never blocked and ends by raising.
C30_EmptyStepFails ==
  \A p \in Pars :
    (phase = "run" /\ heap[p].tasks = <<>>) =>
      /\ \A w \in Workers : slot[w] = NoSlot /\ stack[w] = <<>>
      /\ fin[Main].st # "returned"
      /\ IF stack[Main] = <<>>
         THEN /\ fin[Main] = [st |-> "raised", val |-> Raised]
              /\ path = <<[t |-> Main, o |-> p, out |-> Raised]>>
         ELSE /\ path = <<>>
              /\ Top(Main).slots = <<>>
              /\ ENABLED ParStep(Main)

\* C30 witness: the last configuration of the step was the empty list, and
\* its run has raised without starting a worker
C30_Witness ==
  /\ expr.form = "getitem"
  /\ expr.arg = <<>>
  /\ fin[Main] = [st |-> "raised", val |-> Raised]
  /\ \A w \in Workers : slot[w] = NoSlot

\* C31: the configuration of a Node run is merged once, from the context as
\* it is when the run begins, before prelude is called: prelude, every
\* attempt of dispatch and postlude get that mapping, also after prelude
\* has rewritten the global and the component configuration in the
\* context.  The k-th Node run of a traversal gets the values as rewritten
\* by the k-1 preludes before it.
C31_ConfigBuiltOncePerRun ==
  LET tr == trace[Main]
      active == NodeFrames(Main) # {} /\ Top(Main).pc # "stamp"
      k == IF active THEN Len(NodeRuns) + 1 ELSE Len(NodeRuns)
      own == [a \in {"arg1"} |-> TestConfig["arg1"] + k - 1]
      merged == [a \in {"arg1", "arg2"} |->
                   IF a = "arg1" THEN TestConfig["arg1"] + k - 1
                   ELSE TestCmpnt["D"]["config"]["arg2"] + k - 1]
  IN
    (tr # <<>> /\ (active \/ NodeFrames(Main) = {})) =>
      /\ \A i \in DOMAIN tr :
           tr[i].ev \in {"prep", "exec", "post"} =>
             tr[i].cfg = IF COMP(tr[1].v) = "D" THEN merged ELSE own
      /\ Count(tr, "prep") <= 1
      /\ Count(tr, "prep") = 1 =>
           /\ tr[2].ev = "prep"
           /\ ctx[CallerCtx].config["arg1"] = TestConfig["arg1"] + k
           /\ ctx[CallerCtx].cmpnt["D"]["config"]["arg2"]
                = TestCmpnt["D"]["config"]["arg2"] + k

\* C31 witness: the second run of ANode in a loop, whose dispatch failed
\* once and then succeeded, has called postlude with the values the first
\* prelude left, while the context holds the values of the second
C31_Witness ==
  LET tr == trace[Main] IN
    /\ Len(NodeRuns) = 2
    /\ NodeRuns[1].o = NodeRuns[2].o
    /\ tr # <<>>
    /\ tr[1].v = "ANode"
    /\ Len(Fails(tr)) = 1
    /\ Last(tr).ev = "post"
    /\ Last(tr).cfg = [arg1 |-> 2, arg2 |-> 3]
    /\ ctx[CallerCtx].config["arg1"] = 3

\* C32: in a finished run of the showcase flow on a context with a problem
\* definition, a GemmaEvaluationNode run that ended with
\* "evaluation_complete" is followed by a run of AssessmentNode, the last
\* Node run is FlowEndNode and the flow returns "flow_complete".
C32_AssessmentFollowsEvaluation ==
  LET n == Len(path)
      done == /\ fin[Main].st = "returned"
              /\ n > 0
              /\ heap[path[n].o].kind = "flow"
      pd == ctx[CallerCtx].cmpnt["LLM_ITERATOR"]["problem_definition"]
      evaluated == {i \in 1..n : /\ heap[path[i].o].cls = "GemmaEvaluationNode"
                                 /\ path[i].out = "evaluation_complete"}
  IN
    (done /\ ~Falsy(pd) /\ evaluated # {}) =>
      /\ \A i \in evaluated : heap[path[i + 1].o].cls = "AssessmentNode"
      /\ heap[path[n - 1].o].cls = "FlowEndNode"
      /\ fin[Main].val = "flow_complete"

\* C33: a run of the showcase flow on a context whose round_count is 0
\* ends; in it round_count stays at most 5 and PromptGenerationNode
\* completes at most 5 runs.  An AssessmentNode run returns
\* "unsatisfied_loop_back" only when round_count is below 5, and in the
\* flow PromptGenerationNode follows AssessmentNode only on that outcome.
C33_RoundsBounded ==
  LET C(i) == ctx[i].cmpnt["LLM_ITERATOR"]
      \* the context the caller does not pass keeps the initial values
      fromZero == DictGet(C(3 - CallerCtx), "round_count", 0) = 0
      inFlow == \/ stack[Main] # <<>> /\ stack[Main][1].kind = "flow"
                \/ path # <<>> /\ heap[Last(path).o].kind = "flow"
      runs(cls) == {i \in DOMAIN path : heap[path[i].o].cls = cls}
  IN
    /\ [](/\ (inFlow /\ fromZero) =>
               /\ DictGet(C(CallerCtx), "round_count", 0) <= MaxRounds
               /\ Cardinality(runs("PromptGenerationNode")) <= MaxRounds
          /\ (/\ path # <<>>
              /\ heap[Last(path).o].cls = "AssessmentNode"
              /\ Last(path).out = "unsatisfied_loop_back") =>
               DictGet(C(CallerCtx), "round_count", 0) < MaxRounds
          /\ \A i \in runs("PromptGenerationNode") :
               (i > 1 /\ heap[path[i - 1].o].cls = "AssessmentNode") =>
                 path[i - 1].out = "unsatisfied_loop_back")
    /\ ((inFlow /\ fromZero) ~> (fin[Main].st # "none"))

\* C33 witness: the flow, run on the script's context with round_count 0,
\* has returned after one round: PromptGenerationNode and
\* GemmaEvaluationNode have run and round_count is 1
C33_Witness ==
  /\ fin[Main].st = "returned"
  /\ path # <<>>
  /\ heap[Last(path).o].kind = "flow"
  /\ ctx[3 - CallerCtx].cmpnt["LLM_ITERATOR"]["round_count"] = 0
  /\ ctx[CallerCtx].cmpnt["LLM_ITERATOR"]["round_count"] = 1
  /\ \E i \in DOMAIN path : heap[path[i].o].cls = "PromptGenerationNode"
  /\ \E i \in DOMAIN path : heap[path[i].o].cls = "GemmaEvaluationNode"

====
